---- MODULE Spec2Model ----
(***************************************************************************)
(* Subject-Recommender: the scoring-and-scheduling pipeline                *)
(* (weighting -> aggregation -> normalisation -> session generation).      *)
(*                                                                         *)
(* Number representation.  The program computes in floats; the model       *)
(* computes exactly:                                                       *)
(*   - history scores are whole points (integers, negative for penalties); *)
(*   - predicted grades are per-mille integers (500 is the grade 0.5);     *)
(*   - assessment weights are tenths (6 is the weight 0.6);                *)
(*   - the date decay factor is a numerator over the decay window          *)
(*     (DecayWindow is the factor 1.0);                                    *)
(*   - aggregated and local scores are integers in units of 1/10000;       *)
(*   - normalised scores are exact rationals <<n, d>>, d > 0, reduced.     *)
(* A python dict is a sequence of [subject, score] records with distinct   *)
(* subjects: its iteration order is the sequence order.                    *)
(***************************************************************************)
EXTENDS Integers, Sequences, FiniteSets, TLC

VARIABLES
    pc,               \* position of the generate_session_plan call
    predicted,        \* predictedGrades rows of the active user (dict, row order)
    store,            \* history rows of the active user, in insertion order
    store0,           \* the history rows when the call was made (never changes)
    storeSubjects,    \* names in the subjects table
    storeTypes,       \* labels in the types table
    userExists,       \* the configured user has a row in users
    args,             \* arguments of the call: history, session_parameters, session_date, shots
    defaults,         \* io.get_session_defaults()
    local_history,    \* generate_session_plan: local_history
    parameters,       \* generate_session_plan: parameters
    shot_count,       \* generate_session_plan: shot_count
    run_date,         \* generate_session_plan: run_date
    plans,            \* generate_session_plan: plans
    shot,             \* number of the shot being run (1-based), 0 before the loop
    local_scores,     \* _run_single_plan: local_scores
    tracked_subjects, \* _run_single_plan: tracked_subjects
    subjects,         \* _run_single_plan: subjects
    session_entries,  \* _run_single_plan: session_entries
    plan,             \* _run_single_plan: plan (built, not yet persisted), <<>> when none
    error,            \* the exception the call ended with, "" when none
    trace,            \* observation log: one event per selection / penalty pass / append / failure
    fnCall,           \* pure-function harness: the call made ([op, arg])
    fnResult,         \* pure-function harness: its outcome ([status, value])
    heap              \* list objects by identity (used where aliasing is modelled), <<>> otherwise

vars == <<pc, predicted, store, store0, storeSubjects, storeTypes, userExists, args, defaults,
          local_history, parameters, shot_count, run_date, plans, shot, local_scores,
          tracked_subjects, subjects, session_entries, plan, error, trace,
          fnCall, fnResult, heap>>

storeVars == <<store, store0, storeSubjects, storeTypes, userExists, predicted>>
inputVars == <<args, defaults>>
callVars  == <<local_history, parameters, shot_count, run_date, plans, shot>>
shotVars  == <<local_scores, tracked_subjects, subjects, session_entries, plan>>
fnVars    == <<fnCall, fnResult>>

----------------------------------------------------------------------------
(* Bounds of the model *)

MaxShots == 2
MaxCount == 2
MaxHist == 1
MaxScore == 2
MaxAge == 4

----------------------------------------------------------------------------
(* Generic helpers *)

None == <<>>
Some(v) == <<v>>
IsNone(o) == o = <<>>
Get(o) == o[1]

Max(a, b) == IF a >= b THEN a ELSE b
Min(a, b) == IF a <= b THEN a ELSE b
Abs(a) == IF a < 0 THEN -a ELSE a

RECURSIVE GCD(_, _)
GCD(a, b) == IF b = 0 THEN a ELSE GCD(b, a % b)

Range(s) == {s[i] : i \in DOMAIN s}

(* The concatenation of a sequence of sequences *)
RECURSIVE Concat(_)
Concat(batches) == IF batches = <<>> THEN <<>> ELSE Head(batches) \o Concat(Tail(batches))

(* Sequences over S of length at most n *)
SeqsUpTo(S, n) == UNION {[1..k -> S] : k \in 0..n}

(* Permutations of a sequence *)
PermutationsOf(s) ==
    {[i \in 1..Len(s) |-> s[p[i]]] : p \in {q \in [1..Len(s) -> 1..Len(s)] :
                                             \A i, j \in 1..Len(s) : q[i] = q[j] => i = j}}

----------------------------------------------------------------------------
(* Exact rationals <<n, d>> with d > 0 in lowest terms *)

Rat(n, d) ==
    LET g == GCD(Abs(n), Abs(d))
        s == IF d < 0 THEN -1 ELSE 1
    IN  <<(s * n) \div g, (s * d) \div g>>
RatInt(n) == <<n, 1>>
RatAdd(a, b) == Rat(a[1] * b[2] + b[1] * a[2], a[2] * b[2])
RatDiv(a, b) == Rat(a[1] * b[2], a[2] * b[1])
RatLess(a, b) == a[1] * b[2] < b[1] * a[2]
RatLeq(a, b) == a[1] * b[2] <= b[1] * a[2]

RECURSIVE RatSum(_)
RatSum(s) == IF s = <<>> THEN RatInt(0) ELSE RatAdd(Head(s), RatSum(Tail(s)))

----------------------------------------------------------------------------
(* Dicts: sequences of [subject, score] records with distinct subjects *)

Keys(d) == {d[i].subject : i \in DOMAIN d}
Values(d) == [i \in DOMAIN d |-> d[i].score]
HasKey(d, k) == \E i \in DOMAIN d : d[i].subject = k
Lookup(d, k) == d[CHOOSE i \in DOMAIN d : d[i].subject = k].score
LookupOr(d, k, dflt) == IF HasKey(d, k) THEN Lookup(d, k) ELSE dflt
IsDict(d) == \A i, j \in DOMAIN d : d[i].subject = d[j].subject => i = j

----------------------------------------------------------------------------
(* Program constants (config.py) and the number scales of the model *)

DATE_WEIGHT_ZERO_DAY_THRESHOLD == 300
DATE_WEIGHT_MIN == 0
DATE_WEIGHT_MAX == 1
SESSION_TIME_MINUTES == 45
BREAK_TIME_MINUTES == 15

(* The day number of date.today(); entry dates are day numbers, and a date  *)
(* string that strptime rejects is UnparsableDate.                          *)
Today == 400
UnparsableDate == 0 - 1

(* Local and aggregated scores are integers in units of 1/ScoreScale. *)
ScoreScale == 100 * 100

(* Assessment weights in tenths: the types table as the fixtures seed it,   *)
(* which for the six built-in types equals the config.py fallback.          *)
TypeWeight(t) ==
    CASE t = "Revision"    -> 1
      [] t = "Homework"    -> 2
      [] t = "Quiz"        -> 3
      [] t = "Topic Test"  -> 4
      [] t = "Mock Exam"   -> 5
      [] t = "Exam"        -> 6
      [] t = "Not Studied" -> 0
      [] OTHER             -> 0

BuiltInTypes == {"Revision", "Homework", "Quiz", "Topic Test", "Mock Exam", "Exam"}
AllTypes == BuiltInTypes \cup {"Not Studied"}

(* io.get_assessment_weights: the rows of the types table, or the config    *)
(* constants when the table is empty; a mapping from label to tenths.       *)
get_assessment_weights(types) ==
    [t \in (IF types # {} THEN types ELSE BuiltInTypes) |-> TypeWeight(t)]

(* Mutant: a type missing from the map weighs 1.0 *)
AssessmentWeight_default_one(weights, t) == IF t \in DOMAIN weights THEN weights[t] ELSE 10

(* assessment_weights.get(str(assessment_type), 0.0), in tenths *)
AssessmentWeight(weights, t) == IF t \in DOMAIN weights THEN weights[t] ELSE 0

(* Subject labels in sorted() order *)
SubjectOrder == <<"Art", "Bio", "Chem">>
Subjects == Range(SubjectOrder)
SubjectRank(s) == CHOOSE i \in DOMAIN SubjectOrder : SubjectOrder[i] = s

(* sorted(S) for a set of subject labels *)
Sorted(S) == SelectSeq(SubjectOrder, LAMBDA s : s \in S)

(* Predicted grades (per mille) the model draws from, and the two sines of  *)
(* the generator at those grades, per mille, rounded to nearest:            *)
(*   RevisionUnit(g) = sin(|g - 1| * 2pi / 4 + pi / 2)                      *)
(*   PenaltyUnit(g)  = sin((1 - g) * pi)                                    *)
(* Grade 0 is the default of predicted_grades.get(subject, 0.0).            *)
GradeSet == {500, 750}
RevisionUnit(g) ==
    CASE g = 0    -> 0
      [] g = 100  -> 156
      [] g = 250  -> 383
      [] g = 500  -> 707
      [] g = 750  -> 924
      [] g = 1000 -> 1000
PenaltyUnit(g) ==
    CASE g = 0    -> 0
      [] g = 100  -> 309
      [] g = 250  -> 707
      [] g = 500  -> 1000
      [] g = 750  -> 707
      [] g = 1000 -> 0

(* round(u * t / 1000) for a per-mille unit u and whole minutes t *)
ScaleUnit(u, t) == (u * t + 500) \div 1000

----------------------------------------------------------------------------
(* preprocessing/weighting.py *)

(* io.get_date_weighting *)
get_date_weighting ==
    [min_weight |-> DATE_WEIGHT_MIN, max_weight |-> DATE_WEIGHT_MAX,
     zero_day_threshold |-> DATE_WEIGHT_ZERO_DAY_THRESHOLD]

(* Mutant: no cut-off at the threshold and no clamp, the line is extended *)
calculate_date_weight_unclamped(entry_date, cfg, reference_date) ==
    LET age_days == reference_date - entry_date
    IN  IF entry_date = UnparsableDate \/ age_days <= 0
        THEN cfg.max_weight * Max(1, cfg.zero_day_threshold)
        ELSE cfg.max_weight * Max(1, cfg.zero_day_threshold)
                 - (cfg.max_weight - cfg.min_weight) * age_days

(* _calculate_date_weight: the factor times decay_window (an integer).      *)
(* entry_date is a day number or UnparsableDate.                            *)
DecayWindow(cfg) == Max(1, cfg.zero_day_threshold)
calculate_date_weight(entry_date, cfg, reference_date) ==
    LET decay_window == DecayWindow(cfg)
        age_days == reference_date - entry_date
        span == cfg.max_weight - cfg.min_weight
        scaled_weight == cfg.max_weight * decay_window - span * age_days
    IN  IF entry_date = UnparsableDate THEN cfg.max_weight * decay_window
        ELSE IF age_days >= decay_window THEN cfg.min_weight * decay_window
        ELSE IF age_days <= 0 THEN cfg.max_weight * decay_window
        ELSE Max(cfg.min_weight * decay_window,
                 Min(cfg.max_weight * decay_window, scaled_weight))

(* Mutant: a positive score's weight is not scaled by 100 - score *)
EntryWeight_without_remaining(entry, weights, grades) ==
    LET base == IF entry.score > 0
                THEN AssessmentWeight(weights, entry.type)
                ELSE 10 * ((1000 - LookupOr(grades, entry.subject, 100)) \div 10)
    IN  base * calculate_date_weight(entry.date, get_date_weighting, Today)

(* The weight of one entry, in units of 1 / (10 * decay_window).            *)
EntryWeight(entry, weights, grades) ==
    LET score == entry.score
        base == IF score > 0
                THEN AssessmentWeight(weights, entry.type) * (100 - score)
                ELSE 10 * ((1000 - LookupOr(grades, entry.subject, 100)) \div 10)
    IN  base * calculate_date_weight(entry.date, get_date_weighting, Today)

(* apply_weighting: subject -> [weighted, weight] over the subjects of the  *)
(* history.                                                                 *)
RECURSIVE WeightedTotal(_, _, _, _)
WeightedTotal(history, subject, weights, grades) ==
    IF history = <<>> THEN 0
    ELSE (IF Head(history).subject = subject
          THEN Head(history).score * EntryWeight(Head(history), weights, grades)
          ELSE 0) + WeightedTotal(Tail(history), subject, weights, grades)

RECURSIVE WeightTotal(_, _, _, _)
WeightTotal(history, subject, weights, grades) ==
    IF history = <<>> THEN 0
    ELSE (IF Head(history).subject = subject
          THEN EntryWeight(Head(history), weights, grades)
          ELSE 0) + WeightTotal(Tail(history), subject, weights, grades)

apply_weighting(history, weights, grades) ==
    [s \in {history[i].subject : i \in DOMAIN history} |->
        [weighted |-> WeightedTotal(history, s, weights, grades),
         weight   |-> WeightTotal(history, s, weights, grades)]]

----------------------------------------------------------------------------
(* preprocessing/aggregation.py *)

(* floor(100 * n / d) for d > 0, without forming 100 * n *)
FloorHundredths(n, d) ==
    LET q == n \div d
        r == n - q * d
    IN  100 * q + (100 * r) \div d

(* aggregate_scores: a dict in predicted-grade order; scores in units of    *)
(* 1/ScoreScale (floor(v * 100) / 100 is a whole number of hundredths).     *)
AggregateOne(weighted_history, subject, predicted_grade) ==
    LET has == subject \in DOMAIN weighted_history
        weight_total == IF has THEN weighted_history[subject].weight ELSE 0
        weighted_total == IF has THEN weighted_history[subject].weighted ELSE 0
    IN  IF weight_total > 0
        THEN FloorHundredths(weighted_total, weight_total) * 100
        ELSE (predicted_grade \div 10) * 100

(* Mutant: any non-zero weight total selects the weighted average *)
aggregate_scores_nonzero_weight(weighted_history, grades) ==
    [i \in DOMAIN grades |->
        [subject |-> grades[i].subject,
         score   |-> LET s == grades[i].subject
                     IN  IF s \in DOMAIN weighted_history /\ weighted_history[s].weight < 0
                         THEN FloorHundredths(0 - weighted_history[s].weighted,
                                              0 - weighted_history[s].weight) * 100
                         ELSE AggregateOne(weighted_history, s, grades[i].score)]]

(* Mutant: subjects found only in the weighted history are scored as well *)
aggregate_scores_with_history_subjects(weighted_history, grades) ==
    LET graded == [i \in DOMAIN grades |->
                      [subject |-> grades[i].subject,
                       score   |-> AggregateOne(weighted_history, grades[i].subject,
                                                grades[i].score)]]
        others == Sorted(DOMAIN weighted_history \ Keys(grades))
    IN  graded \o [i \in DOMAIN others |->
                      [subject |-> others[i],
                       score   |-> AggregateOne(weighted_history, others[i], 0)]]

aggregate_scores(weighted_history, grades) ==
    [i \in DOMAIN grades |->
        [subject |-> grades[i].subject,
         score   |-> AggregateOne(weighted_history, grades[i].subject, grades[i].score)]]

----------------------------------------------------------------------------
(* preprocessing/normalisation.py *)

(* Mutant: divides by the number of scores instead of their sum *)
normalise_scores_by_count(d) ==
    LET total == IF d = <<>> THEN RatInt(1) ELSE RatInt(Len(d))
    IN  [i \in DOMAIN d |-> [subject |-> d[i].subject, score |-> RatDiv(d[i].score, total)]]

(* Mutant: a zero total falls back to the number of scores instead of 1.0 *)
normalise_scores_zero_by_count(d) ==
    LET sum == RatSum(Values(d))
        total == IF sum = RatInt(0) THEN RatInt(Max(Len(d), 1)) ELSE sum
    IN  [i \in DOMAIN d |-> [subject |-> d[i].subject, score |-> RatDiv(d[i].score, total)]]

(* normalise_scores on a dict of rationals: total = sum(values) or 1.0 *)
normalise_scores(d) ==
    LET sum == RatSum(Values(d))
        total == IF sum = RatInt(0) THEN RatInt(1) ELSE sum
    IN  [i \in DOMAIN d |-> [subject |-> d[i].subject, score |-> RatDiv(d[i].score, total)]]

(* min(normalised_scores, key=...): the first key, in iteration order,      *)
(* whose value no other value lies below.  Defined for non-empty dicts.     *)
MinIndex(d) ==
    CHOOSE i \in DOMAIN d :
        /\ \A j \in DOMAIN d : RatLeq(d[i].score, d[j].score)
        /\ \A j \in DOMAIN d : j < i => RatLess(d[i].score, d[j].score)

(* Mutant: on a tie the last minimal key wins, and the empty dict yields "" *)
choose_lowest_subject_last(d) ==
    IF d = <<>>
    THEN [status |-> "ok", value |-> ""]
    ELSE LET last == CHOOSE i \in DOMAIN d :
                        /\ \A j \in DOMAIN d : RatLeq(d[i].score, d[j].score)
                        /\ \A j \in DOMAIN d : j > i => RatLess(d[i].score, d[j].score)
         IN  [status |-> "ok", value |-> d[last].subject]

(* choose_lowest_subject: [status, value]; raises ValueError when empty *)
choose_lowest_subject(d) ==
    IF d = <<>>
    THEN [status |-> "ValueError", value |-> "normalised_scores cannot be empty"]
    ELSE [status |-> "ok", value |-> d[MinIndex(d)].subject]

----------------------------------------------------------------------------
(* sessions/generator.py: helpers *)

Entry(subject, type, score, date) ==
    [subject |-> subject, type |-> type, score |-> score, date |-> date]

(* Mutant: an empty result is returned instead of raising *)
get_predicted_grades_allows_empty(rows) == [status |-> "ok", value |-> rows]

(* io.get_predicted_grades: the rows, or ValueError when there are none *)
get_predicted_grades(rows) ==
    IF rows = <<>>
    THEN [status |-> "ValueError", value |-> <<>>]
    ELSE [status |-> "ok", value |-> rows]

(* _resolve_session_parameters *)
Override(overrides, dflts, key) ==
    IF IsNone(overrides[key]) THEN dflts[key] ELSE overrides[key]
resolve_session_parameters(overrides, dflts) ==
    LET merged == [key \in {"count", "session_time", "break_time", "shots"} |->
                      Override(overrides, dflts, key)]
    IN  [merged EXCEPT !["shots"] = IF IsNone(@) THEN Some(1) ELSE @]

(* Mutant: the shots argument is ignored *)
ResolveShotCount_ignores_argument(shots, params) ==
    LET requested == Get(params["shots"])
    IN  Max(IF requested = 0 THEN 1 ELSE requested, 1)

(* shot_count = max(int(shot_count or 1), 1) over shots / parameters["shots"] *)
ResolveShotCount(shots, params) ==
    LET requested == IF ~IsNone(shots) THEN Get(shots) ELSE Get(params["shots"])
    IN  Max(IF requested = 0 THEN 1 ELSE requested, 1)

(* The local score dict as rationals, for normalise_scores *)
AsRationals(scores) ==
    [i \in DOMAIN scores |->
        [subject |-> scores[i].subject, score |-> Rat(scores[i].score, ScoreScale)]]

(* Mutant: the aggregated scores are used without the division by 100 *)
initialise_local_scores_unscaled(history, weights, grades) ==
    aggregate_scores(apply_weighting(history, weights, grades), grades)

(* _initialise_local_scores: aggregated scores / 100 *)
initialise_local_scores(history, weights, grades) ==
    LET weighted == apply_weighting(history, weights, grades)
        aggregated == aggregate_scores(weighted, grades)
    IN  [i \in DOMAIN aggregated |->
            [subject |-> aggregated[i].subject, score |-> aggregated[i].score \div 100]]

(* _adjust_local_scores, in units of 1/ScoreScale:                          *)
(* 0.005 * (2.5 * session_time + break_time) = (125 * s + 50 * b) / 10000   *)
StudiedDelta(session_time, break_time) == 125 * session_time + 50 * break_time
NotStudiedDelta == 50
(* Mutant: the local scores are left as they were after a selection *)
adjust_local_scores_unchanged(scores, chosen_subject, session_time, break_time) == scores
adjust_local_scores(scores, chosen_subject, session_time, break_time) ==
    [i \in DOMAIN scores |->
        [subject |-> scores[i].subject,
         score   |-> IF scores[i].subject = chosen_subject
                     THEN scores[i].score + StudiedDelta(session_time, break_time)
                     ELSE Max(scores[i].score - NotStudiedDelta, 0)]]

(* _collect_subjects *)
collect_subjects(history, grades) ==
    {history[i].subject : i \in DOMAIN history} \cup Keys(grades)

(* _build_revision_entry *)
build_revision_entry(subject, session_time, break_time, session_date, grades) ==
    LET predicted_grade == LookupOr(grades, subject, 0)
        revision_score == ScaleUnit(RevisionUnit(predicted_grade), session_time + break_time)
    IN  Entry(subject, "Revision", revision_score, session_date)

(* _build_not_studied_entries *)
NotStudiedEntry(subject, session_time, break_time, session_date, grades) ==
    LET predicted_grade == LookupOr(grades, subject, 0)
        penalty_score == 0 - ScaleUnit(PenaltyUnit(predicted_grade), session_time + break_time)
    IN  Entry(subject, "Not Studied", penalty_score, session_date)

(* Mutant: studied subjects are not skipped *)
build_not_studied_entries_for_all(tracked, studied, session_time, break_time, session_date, grades) ==
    LET todo == Sorted(tracked)
    IN  [i \in DOMAIN todo |->
            NotStudiedEntry(todo[i], session_time, break_time, session_date, grades)]

build_not_studied_entries(tracked, studied, session_time, break_time, session_date, grades) ==
    LET todo == Sorted(tracked \ studied)
    IN  [i \in DOMAIN todo |->
            NotStudiedEntry(todo[i], session_time, break_time, session_date, grades)]

(* str.strip() on the labels of the model: " " is the one label that is    *)
(* all white space                                                         *)
Strip(label) == IF label = " " THEN "" ELSE label

(* _calculate_predicted_grades_from_history, lines 188-201: the entries of  *)
(* a subject that count are those with a score >= 0 and a weight > 0.       *)
RECURSIVE ScoreWeightSum(_, _, _)
ScoreWeightSum(history, subject, weights) ==
    IF history = <<>> THEN 0
    ELSE LET e == Head(history)
             weight == AssessmentWeight(weights, e.type)
         IN  (IF Strip(e.subject) = subject /\ e.score >= 0 /\ weight > 0
              THEN e.score * weight ELSE 0)
                 + ScoreWeightSum(Tail(history), subject, weights)

RECURSIVE CountedWeightSum(_, _, _)
CountedWeightSum(history, subject, weights) ==
    IF history = <<>> THEN 0
    ELSE LET e == Head(history)
             weight == AssessmentWeight(weights, e.type)
         IN  (IF Strip(e.subject) = subject /\ e.score >= 0 /\ weight > 0
              THEN weight ELSE 0)
                 + CountedWeightSum(Tail(history), subject, weights)

(* max(min(x, 1.0), 0.0) on a rational *)
ClampUnit(x) == IF RatLess(RatInt(1), x) THEN RatInt(1)
                ELSE IF RatLess(x, RatInt(0)) THEN RatInt(0) ELSE x

(* Mutant: the grade is not clamped to [0, 1] *)
calculate_predicted_grades_from_history_unclamped(history, weights) ==
    LET tracked == Sorted({Strip(history[i].subject) : i \in DOMAIN history} \ {""})
    IN  [i \in DOMAIN tracked |->
            [subject |-> tracked[i],
             score   |-> Rat(ScoreWeightSum(history, tracked[i], weights),
                             100 * Max(CountedWeightSum(history, tracked[i], weights), 10))]]

(* _calculate_predicted_grades_from_history: a dict in sorted subject       *)
(* order; the weights are tenths, so max(weight_total, 1.0) is Max(w, 10).  *)
calculate_predicted_grades_from_history(history, weights) ==
    LET tracked == Sorted({Strip(history[i].subject) : i \in DOMAIN history} \ {""})
    IN  [i \in DOMAIN tracked |->
            [subject |-> tracked[i],
             score   |-> ClampUnit(
                             Rat(ScoreWeightSum(history, tracked[i], weights),
                                 100 * Max(CountedWeightSum(history, tracked[i], weights), 10)))]]

(* Mutant: each position is drawn from the selected subjects independently *)
shuffle_subjects_resampled(chosen) == [1..Len(chosen) -> Range(chosen)]

(* _shuffle_subjects: random.shuffle of a copy, any permutation *)
shuffle_subjects(chosen) == PermutationsOf(chosen)

(* io.get_study_history: the user's rows ORDER BY studied_at DESC           *)
(* (a stable insertion sort, most recent first).                            *)
RECURSIVE InsertByDate(_, _)
InsertByDate(sorted, e) ==
    IF sorted = <<>> THEN <<e>>
    ELSE IF Head(sorted).date >= e.date
         THEN <<Head(sorted)>> \o InsertByDate(Tail(sorted), e)
         ELSE <<e>> \o sorted
RECURSIVE OrderByDateDesc(_)
OrderByDateDesc(rows) ==
    IF rows = <<>> THEN <<>>
    ELSE InsertByDate(OrderByDateDesc(SubSeq(rows, 1, Len(rows) - 1)), rows[Len(rows)])
get_study_history(rows) == OrderByDateDesc(rows)

(* Mutant: rows are written one by one until the first unknown type or subject *)
RECURSIVE WriteUntilUnknown(_, _, _, _)
WriteUntilUnknown(entries, rows, types, subjectNames) ==
    IF entries = <<>> THEN rows
    ELSE IF Head(entries).type \notin types \/ Head(entries).subject \notin subjectNames
         THEN rows
         ELSE WriteUntilUnknown(Tail(entries), Append(rows, Head(entries)), types, subjectNames)
append_history_entries_partial(entries, rows, user, types, subjectNames) ==
    LET written == WriteUntilUnknown(entries, rows, types, subjectNames)
    IN  IF entries = <<>> THEN [status |-> "ok", rows |-> rows, written |-> 0]
        ELSE IF ~user THEN [status |-> "ValueError", rows |-> rows, written |-> 0]
        ELSE IF Len(written) < Len(rows) + Len(entries)
             THEN [status |-> "ValueError", rows |-> written, written |-> 0]
        ELSE [status |-> "ok", rows |-> written, written |-> Len(entries)]

(* Mutant: the batch replaces the rows of the store instead of following them *)
append_history_entries_overwriting(entries, rows, user, types, subjectNames) ==
    IF entries = <<>> THEN [status |-> "ok", rows |-> rows, written |-> 0]
    ELSE IF ~user THEN [status |-> "ValueError", rows |-> rows, written |-> 0]
    ELSE [status |-> "ok", rows |-> entries, written |-> Len(entries)]

(* io.append_history_entries: [status, rows, written]. Lines 238-248: an    *)
(* empty batch returns 0; then the user, the stripped non-empty type labels  *)
(* and the stripped non-empty subject names of the whole batch are looked up *)
(* and a missing one raises ValueError before any row is written. Lines      *)
(* 250-275: one row per entry whose stripped subject and type are both       *)
(* non-empty, inserted in one executemany; the count of rows is returned.    *)
append_history_entries(entries, rows, user, types, subjectNames) ==
    LET named_types == {Strip(entries[i].type) : i \in DOMAIN entries} \ {""}
        named_subjects == {Strip(entries[i].subject) : i \in DOMAIN entries} \ {""}
        complete == SelectSeq(entries, LAMBDA e : Strip(e.subject) # "" /\ Strip(e.type) # "")
        new_rows == [i \in DOMAIN complete |->
                        [complete[i] EXCEPT !.subject = Strip(@), !.type = Strip(@)]]
    IN  IF entries = <<>> THEN [status |-> "ok", rows |-> rows, written |-> 0]
        ELSE IF ~user THEN [status |-> "ValueError", rows |-> rows, written |-> 0]
        ELSE IF ~(named_types \subseteq types)
             THEN [status |-> "ValueError", rows |-> rows, written |-> 0]
        ELSE IF ~(named_subjects \subseteq subjectNames)
             THEN [status |-> "ValueError", rows |-> rows, written |-> 0]
        ELSE [status |-> "ok", rows |-> rows \o new_rows, written |-> Len(new_rows)]

(* history_reset._EXCLUDED_TYPES *)
EXCLUDED_TYPES == {"Revision", "Not Studied"}

(* Mutant: every row of the user is deleted *)
delete_history_by_types_all_rows(type_names, rows, user, types) ==
    IF ~user THEN [status |-> "ValueError", rows |-> rows, deleted |-> 0]
    ELSE [status |-> "ok", rows |-> <<>>, deleted |-> Len(rows)]

(* io.delete_history_by_types: [status, rows, deleted]. The user is looked   *)
(* up, then _get_type_map strips the non-empty labels (an all-blank label    *)
(* becomes the empty one and stays requested) and raises ValueError when one *)
(* is not in the types table; the user's rows whose type is one of the       *)
(* resolved ones are deleted, the others keep their order.                   *)
delete_history_by_types(type_names, rows, user, types) ==
    LET wanted == {Strip(t) : t \in type_names \ {""}}
        type_ids == wanted \cap types
        kept == SelectSeq(rows, LAMBDA r : r.type \notin type_ids)
    IN  IF ~user THEN [status |-> "ValueError", rows |-> rows, deleted |-> 0]
        ELSE IF wanted # type_ids THEN [status |-> "ValueError", rows |-> rows, deleted |-> 0]
        ELSE [status |-> "ok", rows |-> kept, deleted |-> Len(rows) - Len(kept)]

(* history_reset.filter_history_file: the entries of a history dataset whose *)
(* type is not an excluded one, in their order (written back and returned).  *)
filter_history_file(data) == SelectSeq(data, LAMBDA entry : entry.type \notin EXCLUDED_TYPES)

(* history_reset.filter_history, the reset the command line runs against     *)
(* the database: the Revision and Not Studied rows of the active user are    *)
(* deleted and the count of deleted rows is returned.                        *)
filter_history(rows, user, types) == delete_history_by_types(EXCLUDED_TYPES, rows, user, types)

----------------------------------------------------------------------------
(* Inputs the model draws from *)

GradedSubjects == {"Art", "Bio"}

PredictedChoices ==
    {d \in SeqsUpTo([subject : GradedSubjects, score : GradeSet], Cardinality(GradedSubjects)) :
        IsDict(d)}

EntryChoices ==
    {Entry("Art", "Quiz", 40, Today),
     Entry("Bio", "Exam", 80, Today - 150),
     Entry("Chem", "Quiz", 55, Today),
     Entry("Art", "Not Studied", 0 - 60, Today - 1)}

HistoryChoices == SeqsUpTo(EntryChoices, MaxHist)

(* A session-time override long enough for session_time + break_time to     *)
(* exceed 100 minutes                                                       *)
LongSessionMinutes == 100

OverrideChoices ==
    [count : {None, Some(0 - 1), Some(1)},
     session_time : {None, Some(LongSessionMinutes)},
     break_time : {None},
     shots : {None, Some(0)}]

DefaultChoices ==
    [count : {Some(MaxCount)},
     session_time : {Some(SESSION_TIME_MINUTES)},
     break_time : {Some(BREAK_TIME_MINUTES)},
     shots : {None, Some(MaxShots)}]

ShotsChoices == {None, Some(0 - 1), Some(1)}

Event(ev, k, subject, scores, batch) ==
    [ev |-> ev, shot |-> k, subject |-> subject, scores |-> scores, batch |-> batch]

NoCall == [op |-> "", arg |-> <<>>]
NoResult == [status |-> "", value |-> <<>>]

----------------------------------------------------------------------------
(* generate_session_plan as a state machine *)

Idle ==
    /\ local_history = <<>>
    /\ parameters = <<>>
    /\ shot_count = 0
    /\ run_date = 0
    /\ plans = <<>>
    /\ shot = 0
    /\ local_scores = <<>>
    /\ tracked_subjects = {}
    /\ subjects = <<>>
    /\ session_entries = <<>>
    /\ plan = <<>>
    /\ error = ""
    /\ trace = <<>>
    /\ heap = <<>>

Init ==
    /\ pc = "start"
    /\ predicted \in PredictedChoices
    /\ userExists \in (IF predicted = <<>> THEN BOOLEAN ELSE {TRUE})
    /\ storeTypes \in {AllTypes, AllTypes \ {"Not Studied"}}
    /\ \E hist0 \in HistoryChoices, fromStore \in BOOLEAN :
          /\ store = IF fromStore THEN hist0 ELSE <<>>
          /\ store0 = store
          /\ {store[i].type : i \in DOMAIN store} \subseteq storeTypes
          /\ storeSubjects = GradedSubjects \cup {store[i].subject : i \in DOMAIN store}
          /\ \E ov \in OverrideChoices, sh \in ShotsChoices :
                args = [history |-> IF fromStore THEN None ELSE Some(hist0),
                        session_parameters |-> ov,
                        session_date |-> None,
                        shots |-> sh]
    /\ defaults \in DefaultChoices
    /\ Idle
    /\ fnCall = NoCall
    /\ fnResult = NoResult

session_count == Max(Get(parameters["count"]), 0)
session_time == Get(parameters["session_time"])
break_time == Get(parameters["break_time"])

Fail(exc, ev) ==
    /\ pc' = "failed"
    /\ error' = exc
    /\ trace' = Append(trace, ev)

(* generate_session_plan, lines 54-58 *)
Prepare ==
    /\ pc = "start"
    /\ IF IsNone(args.history) /\ ~userExists
       THEN /\ Fail("ValueError", Event("load_failed", 0, "", <<>>, <<>>))
            /\ UNCHANGED <<callVars, shotVars>>
       ELSE /\ local_history' = IF IsNone(args.history)
                                THEN get_study_history(store)
                                ELSE Get(args.history)
            /\ parameters' = resolve_session_parameters(args.session_parameters, defaults)
            /\ shot_count' = ResolveShotCount(args.shots, parameters')
            /\ run_date' = IF IsNone(args.session_date) THEN Today ELSE Get(args.session_date)
            /\ pc' = "shot"
            /\ trace' = Append(trace, Event("prepare", 0, "", <<>>, local_history'))
            /\ UNCHANGED <<plans, shot, shotVars, error>>
    /\ UNCHANGED <<heap, storeVars, inputVars, fnVars>>

(* _run_single_plan, lines 286-294 *)
InitialiseScores ==
    /\ pc = "shot"
    /\ shot < shot_count
    /\ shot' = shot + 1
    /\ LET grades == get_predicted_grades(predicted)
       IN  IF grades.status # "ok"
           THEN /\ Fail(grades.status, Event("init_failed", shot + 1, "", <<>>, <<>>))
                /\ UNCHANGED shotVars
           ELSE /\ local_scores' = initialise_local_scores(local_history,
                                                          get_assessment_weights(storeTypes),
                                                          grades.value)
                /\ tracked_subjects' = collect_subjects(local_history, grades.value)
                /\ subjects' = <<>>
                /\ session_entries' = <<>>
                /\ plan' = <<>>
                /\ pc' = "select"
                /\ trace' = Append(trace, Event("init", shot + 1, "", local_scores', local_history))
                /\ UNCHANGED error
    /\ UNCHANGED <<heap, storeVars, inputVars, fnVars, local_history, parameters, shot_count,
                   run_date, plans>>

(* _run_single_plan, lines 296-315: one iteration of the selection loop *)
Select ==
    /\ pc = "select"
    /\ Len(subjects) < session_count
    /\ LET normalised_scores == normalise_scores(AsRationals(local_scores))
           chosen == choose_lowest_subject(normalised_scores)
           entry == build_revision_entry(chosen.value, session_time, break_time, run_date,
                                         predicted)
       IN  IF chosen.status # "ok"
           THEN /\ Fail(chosen.status, Event("select_failed", shot, "", local_scores, <<>>))
                /\ UNCHANGED <<shotVars, local_history>>
           ELSE /\ subjects' = Append(subjects, chosen.value)
                /\ tracked_subjects' = tracked_subjects \cup {chosen.value}
                /\ local_history' = Append(local_history, entry)
                /\ session_entries' = Append(session_entries, entry)
                /\ local_scores' = adjust_local_scores(local_scores, chosen.value,
                                                       session_time, break_time)
                /\ trace' = Append(trace, Event("select", shot, chosen.value, local_scores,
                                                <<entry>>))
                /\ UNCHANGED <<pc, plan, error>>
    /\ UNCHANGED <<heap, storeVars, inputVars, fnVars, parameters, shot_count, run_date, plans, shot>>

(* Mutant: the penalty entries are not added to the working history *)
ExtendHistory_without_penalties(history, not_studied_entries) == history

(* _run_single_plan, line 324: local_history.extend(not_studied_entries) *)
ExtendHistory(history, not_studied_entries) == history \o not_studied_entries

(* _run_single_plan, line 325: persisted_entries *)
PersistedEntries(revision_entries, not_studied_entries) ==
    revision_entries \o not_studied_entries

(* _run_single_plan, lines 317-331: the penalty pass and the plan *)
PenaltyPass ==
    /\ pc = "select"
    /\ Len(subjects) >= session_count
    /\ LET not_studied_entries ==
               build_not_studied_entries(tracked_subjects, Range(subjects), session_time,
                                         break_time, run_date, predicted)
           persisted_entries == PersistedEntries(session_entries, not_studied_entries)
       IN  /\ local_history' = ExtendHistory(local_history, not_studied_entries)
           /\ \E shuffled \in shuffle_subjects(subjects) :
                 plan' = [subjects |-> shuffled,
                          new_entries |-> persisted_entries,
                          history |-> local_history']
           /\ trace' = Append(trace, Event("penalty", shot, "", local_scores,
                                           not_studied_entries))
    /\ pc' = "persist"
    /\ UNCHANGED <<heap, storeVars, inputVars, fnVars, parameters, shot_count, run_date, plans, shot,
                   local_scores, tracked_subjects, subjects, session_entries, error>>

(* Mutant: the entries of all shots are written in one append after the last shot *)
Persist_batched_at_end ==
    /\ pc = "persist"
    /\ LET all == Concat([k \in DOMAIN plans |-> plans[k].new_entries]) \o plan.new_entries
           written == IF shot < shot_count
                      THEN [status |-> "ok", rows |-> store, written |-> 0]
                      ELSE append_history_entries(all, store, userExists, storeTypes,
                                                  storeSubjects)
       IN  IF written.status # "ok"
           THEN /\ Fail(written.status, Event("append_failed", shot, "", <<>>, all))
                /\ store' = written.rows
                /\ UNCHANGED plans
           ELSE /\ store' = written.rows
                /\ plans' = Append(plans, plan)
                /\ pc' = IF shot < shot_count THEN "shot" ELSE "done"
                /\ trace' = IF shot < shot_count THEN trace
                            ELSE Append(trace, Event("append", shot, "", <<>>, all))
                /\ UNCHANGED error
    /\ UNCHANGED <<heap, store0, storeSubjects, storeTypes, userExists, predicted, inputVars, fnVars,
                   local_history, parameters, shot_count, run_date, shot, shotVars>>

(* _run_single_plan, lines 332-333, and generate_session_plan, lines 67-69 *)
Persist ==
    /\ pc = "persist"
    /\ LET written == IF plan.new_entries = <<>>
                      THEN [status |-> "ok", rows |-> store, written |-> 0]
                      ELSE append_history_entries(plan.new_entries, store, userExists,
                                                  storeTypes, storeSubjects)
       IN  IF written.status # "ok"
           THEN /\ Fail(written.status, Event("append_failed", shot, "", <<>>, plan.new_entries))
                /\ store' = written.rows
                /\ UNCHANGED plans
           ELSE /\ store' = written.rows
                /\ plans' = Append(plans, plan)
                /\ pc' = IF shot < shot_count THEN "shot" ELSE "done"
                /\ trace' = IF plan.new_entries = <<>> THEN trace
                            ELSE Append(trace, Event("append", shot, "", <<>>, plan.new_entries))
                /\ UNCHANGED error
    /\ UNCHANGED <<heap, store0, storeSubjects, storeTypes, userExists, predicted, inputVars, fnVars,
                   local_history, parameters, shot_count, run_date, shot, shotVars>>

Next == Prepare \/ InitialiseScores \/ Select \/ PenaltyPass \/ Persist

Spec == Init /\ [][Next]_vars

----------------------------------------------------------------------------
(* Pure-function harness: one call of a preprocessing function on an input  *)
(* drawn from a bounded set of dicts.                                       *)

FnScores == {Rat(k, 4) : k \in (0 - MaxScore)..MaxScore}

FnDicts ==
    {d \in SeqsUpTo([subject : Subjects, score : FnScores], Cardinality(Subjects)) : IsDict(d)}

FnInit ==
    /\ pc = "fn"
    /\ predicted = <<>>
    /\ store = <<>>
    /\ store0 = <<>>
    /\ storeSubjects = {}
    /\ storeTypes = {}
    /\ userExists = FALSE
    /\ args = <<>>
    /\ defaults = <<>>
    /\ Idle
    /\ fnCall \in [op : {""}, arg : FnDicts]
    /\ fnResult = NoResult

(* normalisation.normalise_scores(predicted_grades) *)
CallNormalise ==
    /\ pc = "fn"
    /\ fnCall.op = ""
    /\ fnCall' = [fnCall EXCEPT !.op = "normalise_scores"]
    /\ fnResult' = [status |-> "ok", value |-> normalise_scores(fnCall.arg)]
    /\ UNCHANGED <<heap, pc, storeVars, inputVars, callVars, shotVars, error, trace>>

(* normalisation.choose_lowest_subject(normalised_scores) *)
CallChooseLowest ==
    /\ pc = "fn"
    /\ fnCall.op = ""
    /\ fnCall' = [fnCall EXCEPT !.op = "choose_lowest_subject"]
    /\ fnResult' = choose_lowest_subject(fnCall.arg)
    /\ UNCHANGED <<heap, pc, storeVars, inputVars, callVars, shotVars, error, trace>>

(* normalisation.normalise_scores applied to the mapping it just returned *)
CallNormaliseAgain ==
    /\ pc = "fn"
    /\ fnCall.op = "normalise_scores"
    /\ fnCall' = [op |-> "normalise_scores_again", arg |-> fnResult.value]
    /\ fnResult' = [status |-> "ok", value |-> normalise_scores(fnResult.value)]
    /\ UNCHANGED <<heap, pc, storeVars, inputVars, callVars, shotVars, error, trace>>

FnNext == CallNormalise \/ CallNormaliseAgain \/ CallChooseLowest

FnSpec == FnInit /\ [][FnNext]_vars

----------------------------------------------------------------------------
(* Observations used by the properties *)

(* The events of one kind of one shot, in order *)
EventsOf(ev, k) == SelectSeq(trace, LAMBDA e : e.ev = ev /\ e.shot = k)

(* The subjects selected in shot k, in selection order *)
Selected(k) == [i \in DOMAIN EventsOf("select", k) |-> EventsOf("select", k)[i].subject]

(* The plans built so far, by shot: the returned ones and the one awaiting its append *)
PlansSoFar == plans \o (IF pc = "persist" THEN <<plan>> ELSE <<>>)

(* The working history at the start of shot k *)
StartHistory(k) == EventsOf("init", k)[1].batch

(* The history the call started from *)
InputHistory == IF IsNone(args.history) THEN get_study_history(store0) ELSE Get(args.history)

OfType(entries, type) == SelectSeq(entries, LAMBDA e : e.type = type)
ForSubject(entries, s) == SelectSeq(entries, LAMBDA e : e.subject = s)
SubjectsOf(entries) == {entries[i].subject : i \in DOMAIN entries}

(* The batches appended to the store so far, in order *)
AppendEvents == SelectSeq(trace, LAMBDA e : e.ev = "append")
Appended == [i \in DOMAIN AppendEvents |-> AppendEvents[i].batch]

(* The shots argument the call resolves, as the documentation states it *)
RequestedShots ==
    IF ~IsNone(args.shots) THEN Get(args.shots)
    ELSE IF ~IsNone(args.session_parameters["shots"]) THEN Get(args.session_parameters["shots"])
    ELSE IF ~IsNone(defaults["shots"]) THEN Get(defaults["shots"])
    ELSE 1

----------------------------------------------------------------------------
(* Properties *)

(* C1: in every shot, new_entries holds exactly N Revision entries, one per *)
(* selection and for the subject selected, plus exactly one Not Studied     *)
(* entry for each tracked subject (in the working history, with a predicted *)
(* grade, or selected) that was not selected; no subject has both kinds and *)
(* no tracked subject has neither.                                          *)
C1_EntriesPartitionTracked ==
    \A k \in DOMAIN PlansSoFar :
        LET p == PlansSoFar[k]
            chosen == Selected(k)
            tracked == SubjectsOf(StartHistory(k)) \cup Keys(predicted) \cup Range(chosen)
            revision == OfType(p.new_entries, "Revision")
            penalty == OfType(p.new_entries, "Not Studied")
        IN  /\ Len(revision) = Max(Get(parameters["count"]), 0)
            /\ [i \in DOMAIN revision |-> revision[i].subject] = chosen
            /\ Len(revision) + Len(penalty) = Len(p.new_entries)
            /\ \A s \in Subjects :
                  Len(ForSubject(penalty, s)) =
                      IF s \in tracked /\ s \notin Range(chosen) THEN 1 ELSE 0
            /\ \A s \in tracked :
                  (ForSubject(revision, s) # <<>>) # (ForSubject(penalty, s) # <<>>)

C1_Witness ==
    /\ pc = "done"
    /\ \E k \in DOMAIN plans :
          /\ Len(OfType(plans[k].new_entries, "Revision")) = 2
          /\ Len(OfType(plans[k].new_entries, "Not Studied")) >= 1
          /\ "Chem" \in SubjectsOf(OfType(plans[k].new_entries, "Not Studied"))

(* C2: in every iteration of the selection loop the selected subject has a  *)
(* minimal local working score among all subjects of the local score map,   *)
(* also when the map holds negative scores and sums to a negative or zero.  *)
C2_SelectedIsWeakest ==
    \A i \in DOMAIN trace :
        trace[i].ev = "select" =>
            \A j \in DOMAIN trace[i].scores :
                Lookup(trace[i].scores, trace[i].subject) <= trace[i].scores[j].score

(* C3: the working history at the start of shot i+1 is the one at the start *)
(* of shot i followed by exactly the entries shot i produced and persisted: *)
(* plans[1].history is the input history plus plans[1].new_entries, and     *)
(* plans[i+1].history is plans[i].history plus plans[i+1].new_entries.      *)
C3_HistoryGrowsByShotEntries ==
    \A k \in DOMAIN plans :
        LET before == IF k = 1 THEN InputHistory ELSE plans[k - 1].history
        IN  /\ StartHistory(k) = before
            /\ plans[k].history = before \o plans[k].new_entries
            /\ Len(plans[k].history) - Len(before) = Len(plans[k].new_entries)
            /\ Appended[k] = plans[k].new_entries
            /\ k < Len(plans) => StartHistory(k + 1) = StartHistory(k) \o Appended[k]

C3_Witness ==
    /\ pc = "done"
    /\ Len(plans) = 2
    /\ Len(InputHistory) = 1
    /\ Len(plans[2].history) = Len(plans[1].history) + Len(plans[2].new_entries)
    /\ Len(plans[1].new_entries) >= 2

(* C4: persistence is per shot and ordered: a shot's selections and penalty *)
(* pass all precede its single append, the append holds all of the shot's   *)
(* entries and precedes the next shot's score initialisation, and a run of  *)
(* S shots performs exactly S appends.                                      *)
C4_PersistPerShotInOrder ==
    /\ \A i \in DOMAIN trace :
          trace[i].ev = "append" =>
              LET k == trace[i].shot
                  earlier == SubSeq(trace, 1, i - 1)
                  picks == SelectSeq(earlier, LAMBDA e : e.ev = "select" /\ e.shot = k)
                  passes == SelectSeq(earlier, LAMBDA e : e.ev = "penalty" /\ e.shot = k)
              IN  /\ Len(picks) = Max(Get(parameters["count"]), 0)
                  /\ Len(passes) = 1
                  /\ trace[i].batch = Concat([j \in DOMAIN picks |-> picks[j].batch])
                                          \o passes[1].batch
                  /\ \A j \in DOMAIN trace : j < i => trace[j].shot <= k
                  /\ \A j \in DOMAIN trace : j > i => trace[j].shot > k
    /\ \A j \in DOMAIN trace :
          trace[j].ev = "init" /\ trace[j].shot > 1 =>
              \E i \in 1..(j - 1) : trace[i].ev = "append" /\ trace[i].shot = trace[j].shot - 1
    /\ \A k \in DOMAIN plans : Len(EventsOf("append", k)) = 1
    /\ store = store0 \o Concat(Appended)
    /\ pc = "done" => Len(AppendEvents) = shot_count

C4_Witness ==
    /\ pc = "done"
    /\ shot_count = 2
    /\ Len(AppendEvents) = 2
    /\ Len(Selected(1)) >= 1
    /\ Len(store) > Len(store0) + Len(Appended[1])

(* C5: when persisting the entries of shot k fails, the call ends with that *)
(* error and returns no plans, the store holds the entries of shots 1..k-1  *)
(* in full and none of shot k or later, nothing is rolled back and no later *)
(* shot runs.                                                               *)
C5_FailedShotLeavesEarlierShots ==
    (pc = "failed" /\ trace[Len(trace)].ev = "append_failed") =>
        LET k == trace[Len(trace)].shot
        IN  /\ error = "ValueError"
            /\ k = shot
            /\ Len(plans) = k - 1
            /\ store = store0 \o Concat([j \in 1..(k - 1) |-> plans[j].new_entries])
            /\ \A i \in DOMAIN trace : trace[i].shot <= k
            /\ ~ENABLED Next

C5_Witness ==
    /\ pc = "failed"
    /\ trace[Len(trace)].ev = "append_failed"
    /\ shot = 2
    /\ Len(plans) = 1
    /\ Len(store) > Len(store0)

(* C6: a successful call returns exactly max(1, s) plans in shot order,     *)
(* s being the shots argument when given, else the shots of the resolved    *)
(* session parameters (override, then defaults), else 1.                    *)
C6_ReturnsMaxOneShotsPlans ==
    pc = "done" =>
        /\ Len(plans) = Max(1, RequestedShots)
        /\ \A k \in DOMAIN plans :
              /\ Len(EventsOf("append", k)) = 1
              /\ plans[k].new_entries = EventsOf("append", k)[1].batch
              /\ \A i, j \in DOMAIN trace :
                    (trace[i].ev = "append" /\ trace[j].ev = "append" /\ i < j)
                        => trace[i].shot < trace[j].shot

C6_Witness ==
    /\ pc = "done"
    /\ IsNone(args.shots)
    /\ IsNone(args.session_parameters["shots"])
    /\ Len(plans) = MaxShots

(* C7: with no predicted grades configured for the (existing) active user   *)
(* the call fails with the configuration error while initialising the       *)
(* scores of the first shot, for every session count: nothing is selected,  *)
(* no plan is built or returned and nothing is appended to the store.       *)
C7_NoPredictedGradesFails ==
    (predicted = <<>> /\ userExists) =>
        /\ pc \in {"start", "shot", "failed"}
        /\ pc = "shot" => shot = 0
        /\ pc = "failed" =>
              /\ error = "ValueError"
              /\ trace[Len(trace)].ev = "init_failed"
              /\ trace[Len(trace)].shot = 1
              /\ ~ENABLED Next
        /\ plans = <<>> /\ plan = <<>>
        /\ store = store0
        /\ \A i \in DOMAIN trace : trace[i].ev \notin {"select", "penalty", "append"}

C7_Witness ==
    /\ predicted = <<>>
    /\ userExists
    /\ pc = "failed"
    /\ error = "ValueError"
    /\ Get(parameters["count"]) <= 0
    /\ store0 # <<>>


(* C8: choose_lowest_subject returns, for a non-empty mapping, a subject    *)
(* whose value is the minimum, the first such in iteration order on a tie,  *)
(* and raises ValueError for the empty mapping.                             *)
C8_ChooseLowestIsFirstArgmin ==
    fnCall.op = "choose_lowest_subject" =>
        LET d == fnCall.arg
        IN  IF d = <<>>
            THEN fnResult.status = "ValueError"
            ELSE /\ fnResult.status = "ok"
                 /\ \E i \in DOMAIN d :
                       /\ d[i].subject = fnResult.value
                       /\ \A j \in DOMAIN d : ~RatLess(d[j].score, d[i].score)
                       /\ \A j \in 1..(i - 1) : d[j].score # d[i].score

C8_Witness ==
    /\ fnCall.op = "choose_lowest_subject"
    /\ Len(fnCall.arg) = 3
    /\ fnCall.arg[2].score = fnCall.arg[3].score
    /\ RatLess(fnCall.arg[2].score, fnCall.arg[1].score)
    /\ fnResult = [status |-> "ok", value |-> fnCall.arg[2].subject]
    /\ SubjectRank(fnCall.arg[3].subject) < SubjectRank(fnCall.arg[2].subject)

(* C9: for a non-empty mapping whose values sum to a positive total, the    *)
(* values normalise_scores returns sum to 1, each being score / total.      *)
C9_PositiveTotalSumsToOne ==
    (fnCall.op = "normalise_scores" /\ fnCall.arg # <<>>
        /\ RatLess(RatInt(0), RatSum(Values(fnCall.arg)))) =>
        LET d == fnCall.arg
            r == fnResult.value
            total == RatSum(Values(d))
        IN  /\ fnResult.status = "ok"
            /\ DOMAIN r = DOMAIN d
            /\ \A i \in DOMAIN d :
                  /\ r[i].subject = d[i].subject
                  /\ r[i].score[1] * total[1] * d[i].score[2]
                         = d[i].score[1] * total[2] * r[i].score[2]
            /\ RatSum(Values(r)) = RatInt(1)

C9_Witness ==
    /\ fnCall.op = "normalise_scores"
    /\ Len(fnCall.arg) = 3
    /\ RatSum(Values(fnCall.arg)) = Rat(3, 4)
    /\ \E i \in DOMAIN fnCall.arg : RatLess(fnCall.arg[i].score, RatInt(0))
    /\ RatSum(Values(fnResult.value)) = RatInt(1)

(* C10: when the scores total 0, normalise_scores divides by 1 instead: no  *)
(* error, and the input values come back unchanged (zeros for all zeros).   *)
C10_ZeroTotalReturnsInput ==
    (fnCall.op = "normalise_scores" /\ RatSum(Values(fnCall.arg)) = RatInt(0)) =>
        /\ fnResult.status = "ok"
        /\ fnResult.value = fnCall.arg

C10_Witness ==
    /\ fnCall.op = "normalise_scores"
    /\ Len(fnCall.arg) = 2
    /\ \A i \in DOMAIN fnCall.arg : fnCall.arg[i].score = RatInt(0)
    /\ fnResult.value = fnCall.arg


NormalisedAt(i) == normalise_scores(AsRationals(trace[i].scores))

(* C12: every normalised score computed during plan generation lies in      *)
(* [0, 1]: at every step of the selection loop each value of the normalised *)
(* mapping is >= 0 and <= 1.                                                *)
C12_NormalisedWithinUnitInterval ==
    \A i \in DOMAIN trace :
        trace[i].ev = "select" =>
            \A j \in DOMAIN NormalisedAt(i) :
                /\ RatLeq(RatInt(0), NormalisedAt(i)[j].score)
                /\ RatLeq(NormalisedAt(i)[j].score, RatInt(1))


(* The totals apply_weighting returned when the score initialisation        *)
(* recorded as trace[i] ran on the working history of that moment           *)
WeightedAt(i) == apply_weighting(trace[i].batch, get_assessment_weights(storeTypes), predicted)

(* C13: the accumulated weight total of every subject apply_weighting       *)
(* returns is >= 0, for every history the pipeline holds, the synthetic     *)
(* Revision and Not Studied entries of earlier shots included.              *)
C13_WeightTotalNonNegative ==
    \A i \in DOMAIN trace :
        trace[i].ev = "init" =>
            \A s \in DOMAIN WeightedAt(i) : WeightedAt(i)[s].weight >= 0


----------------------------------------------------------------------------
(* Preprocessing harness: one call of a weighting, aggregation or grade     *)
(* derivation function on an input drawn from a bounded set.                *)

(* Totals as apply_weighting accumulates them, for aggregate_scores *)
TotalsChoices ==
    {[weighted |-> 15554, weight |-> 2000],
     [weighted |-> 0 - 7, weight |-> 2],
     [weighted |-> 0, weight |-> 3],
     [weighted |-> 9, weight |-> 0],
     [weighted |-> 5, weight |-> 0 - 2]}

WeightedHistoryChoices ==
    UNION {[S -> TotalsChoices] : S \in SUBSET {"Art", "Chem"}}

(* Predicted grades for the harness, per mille: 0.125, 0.5, 0.755 *)
HarnessGrades == {125, 500, 755}

HarnessGradeDicts ==
    {d \in SeqsUpTo([subject : GradedSubjects, score : HarnessGrades],
                    Cardinality(GradedSubjects)) : IsDict(d)}

AggregateInputs ==
    [kind : {"aggregate_scores"},
     weighted_history : WeightedHistoryChoices,
     grades : HarnessGradeDicts \ {<<>>}]

(* aggregation.aggregate_scores(weighted_history) *)
CallAggregateScores ==
    /\ pc = "pre"
    /\ fnCall.op = ""
    /\ fnCall.arg.kind = "aggregate_scores"
    /\ fnCall' = [fnCall EXCEPT !.op = "aggregate_scores"]
    /\ fnResult' = [status |-> "ok",
                    value |-> aggregate_scores(fnCall.arg.weighted_history, fnCall.arg.grades)]
    /\ UNCHANGED <<heap, pc, storeVars, inputVars, callVars, shotVars, error, trace>>

(* History entries for the harness: positive, zero and negative scores, a   *)
(* score above 100, known and unknown types, dated and undated, for a       *)
(* subject with a predicted grade (Art) and one without (Chem).             *)
HarnessEntries ==
    {Entry("Art", "Exam", 75, UnparsableDate),
     Entry("Art", "Quiz", 65, UnparsableDate),
     Entry("Art", "Exam", 0, UnparsableDate),
     Entry("Art", "Exam", 0 - 10, Today - 150),
     Entry("Art", "Unknown", 50, Today),
     Entry("Art", "Unknown", 0 - 20, Today),
     Entry("Chem", "Exam", 0 - 5, UnparsableDate),
     Entry("Chem", "Quiz", 120, Today - 150),
     Entry("", "Quiz", 90, Today)}

HarnessHistories == SeqsUpTo(HarnessEntries, MaxHist + 1)

(* Assessment-weight maps for the harness, in tenths: {Exam 2.0, Quiz 1.5}, *)
(* {Exam 1.0}, {Quiz 0.3, Exam 0.0} and {Exam -1.0}                         *)
HarnessWeights ==
    {[t \in {"Exam", "Quiz"} |-> IF t = "Exam" THEN 20 ELSE 15],
     [t \in {"Exam"} |-> 10],
     [t \in {"Exam", "Quiz"} |-> IF t = "Exam" THEN 0 ELSE 3],
     [t \in {"Exam"} |-> 0 - 10]}

WeightingGradeDicts ==
    {<<[subject |-> "Art", score |-> 755]>>,
     <<[subject |-> "Bio", score |-> 500], [subject |-> "Art", score |-> 125]>>}

WeightingInputs ==
    [kind : {"apply_weighting"},
     history : HarnessHistories,
     weights : HarnessWeights,
     grades : WeightingGradeDicts]

(* weighting.apply_weighting(history) *)
CallApplyWeighting ==
    /\ pc = "pre"
    /\ fnCall.op = ""
    /\ fnCall.arg.kind = "apply_weighting"
    /\ fnCall' = [fnCall EXCEPT !.op = "apply_weighting"]
    /\ fnResult' = [status |-> "ok",
                    value |-> apply_weighting(fnCall.arg.history, fnCall.arg.weights,
                                              fnCall.arg.grades)]
    /\ UNCHANGED <<heap, pc, storeVars, inputVars, callVars, shotVars, error, trace>>

(* Date-weighting configurations for the harness: weights of 0, 1 and 2     *)
(* steps of any one unit (the factor is linear in them) with                *)
(* min_weight <= max_weight, and thresholds of 0, 1 and MaxAge - 1 days.    *)
DateConfigChoices ==
    {cfg \in [min_weight : 0..2, max_weight : 0..2, zero_day_threshold : {0, 1, MaxAge - 1}] :
        cfg.min_weight <= cfg.max_weight}

(* Entry dates: a day in the future, today, up to MaxAge days ago, or a     *)
(* string that is no date                                                   *)
DateChoices == {Today - a : a \in (0 - 1)..MaxAge} \cup {UnparsableDate}

DateWeightInputs ==
    [kind : {"calculate_date_weight"},
     entry_date : DateChoices,
     cfg : DateConfigChoices,
     reference_date : {Today}]

(* weighting._calculate_date_weight(entry_date, weighting_config, reference_date) *)
CallDateWeight ==
    /\ pc = "pre"
    /\ fnCall.op = ""
    /\ fnCall.arg.kind = "calculate_date_weight"
    /\ fnCall' = [fnCall EXCEPT !.op = "calculate_date_weight"]
    /\ fnResult' = [status |-> "ok",
                    value |-> calculate_date_weight(fnCall.arg.entry_date, fnCall.arg.cfg,
                                                    fnCall.arg.reference_date)]
    /\ UNCHANGED <<heap, pc, storeVars, inputVars, callVars, shotVars, error, trace>>

(* weighting._calculate_date_weight for an entry one day older than the one *)
(* just weighted, under the same configuration                              *)
CallDateWeightOlder ==
    /\ pc = "pre"
    /\ fnCall.op = "calculate_date_weight"
    /\ fnCall.arg.entry_date # UnparsableDate
    /\ fnCall' = [op |-> "calculate_date_weight_older",
                  arg |-> [fnCall.arg EXCEPT !.entry_date = @ - 1],
                  newer |-> fnResult.value]
    /\ fnResult' = [status |-> "ok",
                    value |-> calculate_date_weight(fnCall.arg.entry_date - 1, fnCall.arg.cfg,
                                                    fnCall.arg.reference_date)]
    /\ UNCHANGED <<heap, pc, storeVars, inputVars, callVars, shotVars, error, trace>>

(* Histories for the grade derivation: the harness entries and one whose    *)
(* subject is white space                                                   *)
DerivationHistories ==
    SeqsUpTo(HarnessEntries \cup {Entry(" ", "Exam", 50, Today)}, MaxHist + 1)

DerivationInputs ==
    [kind : {"calculate_predicted_grades_from_history"},
     history : DerivationHistories,
     weights : HarnessWeights]

(* generator._calculate_predicted_grades_from_history(history) *)
CallPredictedGradesFromHistory ==
    /\ pc = "pre"
    /\ fnCall.op = ""
    /\ fnCall.arg.kind = "calculate_predicted_grades_from_history"
    /\ fnCall' = [fnCall EXCEPT !.op = "calculate_predicted_grades_from_history"]
    /\ fnResult' = [status |-> "ok",
                    value |-> calculate_predicted_grades_from_history(fnCall.arg.history,
                                                                      fnCall.arg.weights)]
    /\ UNCHANGED <<heap, pc, storeVars, inputVars, callVars, shotVars, error, trace>>

PreInputs == AggregateInputs \cup WeightingInputs \cup DateWeightInputs \cup DerivationInputs

PreInit ==
    /\ pc = "pre"
    /\ predicted = <<>>
    /\ store = <<>>
    /\ store0 = <<>>
    /\ storeSubjects = {}
    /\ storeTypes = {}
    /\ userExists = FALSE
    /\ args = <<>>
    /\ defaults = <<>>
    /\ Idle
    /\ fnCall \in [op : {""}, arg : PreInputs]
    /\ fnResult = NoResult

PreNext ==
    \/ CallAggregateScores
    \/ CallApplyWeighting
    \/ CallDateWeight
    \/ CallDateWeightOlder
    \/ CallPredictedGradesFromHistory

PreSpec == PreInit /\ [][PreNext]_vars

(* C14: aggregate_scores returns, for every subject with a predicted grade  *)
(* and for no other, floor(v * 100) / 100, v being weightedSum/weightTotal  *)
(* when the subject's weight total is > 0 and the subject's predicted grade *)
(* otherwise (no totals for the subject, or a weight total of 0 or less).   *)
C14_AggregateFloorsAverageOrGrade ==
    fnCall.op = "aggregate_scores" =>
        LET wh == fnCall.arg.weighted_history
            grades == fnCall.arg.grades
            r == fnResult.value
        IN  /\ fnResult.status = "ok"
            /\ DOMAIN r = DOMAIN grades
            /\ \A i \in DOMAIN grades :
                  LET s == grades[i].subject
                      wt == IF s \in DOMAIN wh THEN wh[s].weight ELSE 0
                      h == r[i].score \div 100
                  IN  /\ r[i].subject = s
                      /\ r[i].score = 100 * h
                      /\ IF wt > 0
                         THEN /\ h * wt <= 100 * wh[s].weighted
                              /\ 100 * wh[s].weighted < (h + 1) * wt
                         ELSE /\ h * 10 <= grades[i].score
                              /\ grades[i].score < (h + 1) * 10

C14_Witness ==
    /\ fnCall.op = "aggregate_scores"
    /\ fnCall.arg.grades = <<[subject |-> "Bio", score |-> 755], [subject |-> "Art", score |-> 500]>>
    /\ DOMAIN fnCall.arg.weighted_history = {"Art", "Chem"}
    /\ fnCall.arg.weighted_history["Art"] = [weighted |-> 15554, weight |-> 2000]
    /\ fnResult.value = <<[subject |-> "Bio", score |-> 7500], [subject |-> "Art", score |-> 77700]>>


(* C15: apply_weighting accumulates per subject weightedSum = sum(score*w)  *)
(* and weightTotal = sum(w) over the subject's entries, with                *)
(* w = assessmentWeight[type] * (100 - score) * decay for a score > 0 and   *)
(* w = floor(100 * (1 - predictedGrade(subject, default 0.1))) * decay for  *)
(* a score <= 0; undated [Art Exam 75, Art Quiz 65] under {Exam 2.0,        *)
(* Quiz 1.5} gives 7162.5 and 102.5 (here in units of 1/(10*DecayWindow)).  *)
C15_WeightingAccumulates ==
    fnCall.op = "apply_weighting" =>
        LET history == fnCall.arg.history
            weights == fnCall.arg.weights
            grades == fnCall.arg.grades
            r == fnResult.value
            decay(e) == calculate_date_weight(e.date, get_date_weighting, Today)
            grade(s) == IF \E i \in DOMAIN grades : grades[i].subject = s
                        THEN Lookup(grades, s) ELSE 100
            floorDelta(s) == CHOOSE h \in 0..100 :
                                 h * 10 <= 1000 - grade(s) /\ 1000 - grade(s) < (h + 1) * 10
            w(e) == IF e.score > 0
                    THEN (IF e.type \in DOMAIN weights THEN weights[e.type] ELSE 0)
                             * (100 - e.score) * decay(e)
                    ELSE 10 * floorDelta(e.subject) * decay(e)
            RECURSIVE sumW(_, _)
            sumW(I, s) == IF I = {} THEN 0
                          ELSE LET i == CHOOSE i \in I : TRUE
                               IN  (IF history[i].subject = s THEN w(history[i]) ELSE 0)
                                       + sumW(I \ {i}, s)
            RECURSIVE sumSW(_, _)
            sumSW(I, s) == IF I = {} THEN 0
                           ELSE LET i == CHOOSE i \in I : TRUE
                                IN  (IF history[i].subject = s
                                     THEN history[i].score * w(history[i]) ELSE 0)
                                        + sumSW(I \ {i}, s)
        IN  /\ fnResult.status = "ok"
            /\ DOMAIN r = {history[i].subject : i \in DOMAIN history}
            /\ \A s \in DOMAIN r :
                  /\ r[s].weight = sumW(DOMAIN history, s)
                  /\ r[s].weighted = sumSW(DOMAIN history, s)
            /\ (/\ history = <<Entry("Art", "Exam", 75, UnparsableDate),
                               Entry("Art", "Quiz", 65, UnparsableDate)>>
                /\ weights["Exam"] = 20
                /\ weights["Quiz"] = 15)
                   => r = [s \in {"Art"} |-> [weighted |-> 71625 * DecayWindow(get_date_weighting),
                                              weight   |-> 1025 * DecayWindow(get_date_weighting)]]

C15_Witness ==
    /\ fnCall.op = "apply_weighting"
    /\ fnCall.arg.history = <<Entry("Art", "Exam", 75, UnparsableDate),
                              Entry("Art", "Quiz", 65, UnparsableDate)>>
    /\ fnCall.arg.weights["Exam"] = 20
    /\ "Quiz" \in DOMAIN fnCall.arg.weights
    /\ fnCall.arg.weights["Quiz"] = 15
    /\ fnResult.value["Art"].weighted = 21487500
    /\ fnResult.value["Art"].weight = 307500


(* C16, as stated: an entry whose assessment type is not in the weight map  *)
(* is never fatal and adds 0 to both the weighted sum and the weight total  *)
(* of its subject, whatever its score (positive, zero or negative).         *)
C16_UnknownTypeAddsNothing ==
    fnCall.op = "apply_weighting" =>
        LET history == fnCall.arg.history
            known(e) == e.type \in DOMAIN fnCall.arg.weights
            kept == SelectSeq(history, known)
            without == apply_weighting(kept, fnCall.arg.weights, fnCall.arg.grades)
        IN  /\ fnResult.status = "ok"
            /\ \A s \in DOMAIN fnResult.value :
                  fnResult.value[s] = IF s \in DOMAIN without THEN without[s]
                                      ELSE [weighted |-> 0, weight |-> 0]

(* C16, amended: an entry whose assessment type is not in the weight map is *)
(* never fatal; with a score > 0 it adds 0 to both the weighted sum and the *)
(* weight total of its subject, and with a score <= 0 it is weighted like   *)
(* any other entry, by floor(100 * (1 - predictedGrade)) * decay.           *)
C16_UnknownTypePositiveScoreAddsNothing ==
    fnCall.op = "apply_weighting" =>
        LET history == fnCall.arg.history
            grades == fnCall.arg.grades
            counted(e) == e.type \in DOMAIN fnCall.arg.weights \/ e.score <= 0
            kept == SelectSeq(history, counted)
            without == apply_weighting(kept, fnCall.arg.weights, grades)
            grade(s) == IF \E i \in DOMAIN grades : grades[i].subject = s
                        THEN Lookup(grades, s) ELSE 100
        IN  /\ fnResult.status = "ok"
            /\ DOMAIN fnResult.value = {history[i].subject : i \in DOMAIN history}
            /\ \A s \in DOMAIN fnResult.value :
                  fnResult.value[s] = IF s \in DOMAIN without THEN without[s]
                                      ELSE [weighted |-> 0, weight |-> 0]
            /\ (Len(history) = 1 /\ history[1].type \notin DOMAIN fnCall.arg.weights
                    /\ history[1].score <= 0) =>
                  LET e == history[1]
                      w == fnResult.value[e.subject].weight
                      decay == calculate_date_weight(e.date, get_date_weighting, Today)
                  IN  /\ w <= (1000 - grade(e.subject)) * decay
                      /\ (1000 - grade(e.subject)) * decay < w + 10 * decay
                      /\ fnResult.value[e.subject].weighted = e.score * w

C16_Witness ==
    /\ fnCall.op = "apply_weighting"
    /\ fnCall.arg.history = <<Entry("Art", "Unknown", 50, Today),
                              Entry("Art", "Exam", 75, UnparsableDate)>>
    /\ fnCall.arg.weights["Exam"] = 20
    /\ fnResult.value["Art"] = [weighted |-> 75 * 500 * 300, weight |-> 500 * 300]


(* C17: the date decay factor is maxWeight when the date is unparsable or   *)
(* the age is <= 0 days, minWeight when the age is >= the zero-day          *)
(* threshold, and maxWeight - (maxWeight - minWeight) * (age / threshold)   *)
(* otherwise; with minWeight <= maxWeight it lies in [minWeight, maxWeight] *)
(* and an entry one day older never gets a larger factor.  (Factors are     *)
(* held times the decay window.)                                            *)
C17_DateWeightPiecewiseMonotone ==
    fnCall.op \in {"calculate_date_weight", "calculate_date_weight_older"} =>
        LET cfg == fnCall.arg.cfg
            window == DecayWindow(cfg)
            threshold == cfg.zero_day_threshold
            age == fnCall.arg.reference_date - fnCall.arg.entry_date
            factor == fnResult.value
        IN  /\ fnResult.status = "ok"
            /\ IF fnCall.arg.entry_date = UnparsableDate \/ age <= 0
               THEN factor = cfg.max_weight * window
               ELSE IF age >= threshold
               THEN factor = cfg.min_weight * window
               ELSE factor * threshold
                        = (cfg.max_weight * threshold - (cfg.max_weight - cfg.min_weight) * age)
                              * window
            /\ cfg.min_weight * window <= factor
            /\ factor <= cfg.max_weight * window
            /\ fnCall.op = "calculate_date_weight_older" => factor <= fnCall.newer

C17_Witness ==
    /\ fnCall.op = "calculate_date_weight_older"
    /\ fnCall.arg.cfg = [min_weight |-> 1, max_weight |-> 2, zero_day_threshold |-> MaxAge - 1]
    /\ fnCall.arg.entry_date = Today - 2
    /\ fnResult.value < fnCall.newer
    /\ fnResult.value > fnCall.arg.cfg.min_weight * (MaxAge - 1)


C19_DerivedGradeDividesBySummedWeight ==
    fnCall.op = "calculate_predicted_grades_from_history" =>
        LET history == fnCall.arg.history
            weights == fnCall.arg.weights
            r == fnResult.value
            weight(e) == IF e.type \in DOMAIN weights THEN weights[e.type] ELSE 0
            RECURSIVE sumW(_, _)
            sumW(I, s) == IF I = {} THEN 0
                          ELSE LET i == CHOOSE i \in I : TRUE
                               IN  (IF Strip(history[i].subject) = s /\ history[i].score >= 0
                                       /\ weight(history[i]) > 0
                                    THEN weight(history[i]) ELSE 0) + sumW(I \ {i}, s)
            RECURSIVE sumSW(_, _)
            sumSW(I, s) == IF I = {} THEN 0
                           ELSE LET i == CHOOSE i \in I : TRUE
                                IN  (IF Strip(history[i].subject) = s /\ history[i].score >= 0
                                        /\ weight(history[i]) > 0
                                     THEN history[i].score * weight(history[i]) ELSE 0)
                                        + sumSW(I \ {i}, s)
        IN  \A i \in DOMAIN r :
                LET W == sumW(DOMAIN history, r[i].subject)
                    S == sumSW(DOMAIN history, r[i].subject)
                IN  W > 0 =>
                        r[i].score = IF S > 100 * W THEN RatInt(1)
                                     ELSE IF S < 0 THEN RatInt(0)
                                     ELSE Rat(S, 100 * W)


(* C20: the shuffle affects only the returned display list: plan.subjects   *)
(* is a permutation of the shot's selection sequence, the Revision entries  *)
(* of new_entries and of the working history stay in selection order, and   *)
(* the Not Studied entries and the next shot's working history are fixed by *)
(* the selections alone, whatever order the shuffle produced.               *)
C20_ShuffleOnlyReordersSubjects ==
    \A k \in DOMAIN PlansSoFar :
        LET p == PlansSoFar[k]
            chosen == Selected(k)
            start == StartHistory(k)
            revision == OfType(p.new_entries, "Revision")
            penalty == OfType(p.new_entries, "Not Studied")
            picks == EventsOf("select", k)
        IN  /\ p.subjects \in PermutationsOf(chosen)
            /\ [i \in DOMAIN revision |-> revision[i].subject] = chosen
            /\ revision = Concat([i \in DOMAIN picks |-> picks[i].batch])
            /\ p.new_entries = revision \o penalty
            /\ SubSeq(p.history, Len(start) + 1, Len(start) + Len(chosen)) = revision
            /\ penalty = EventsOf("penalty", k)[1].batch
            /\ SubjectsOf(penalty)
                   = (SubjectsOf(start) \cup Keys(predicted)) \ Range(chosen)
            /\ \A i, j \in DOMAIN penalty : penalty[i].subject = penalty[j].subject => i = j
            /\ p.history = start \o revision \o penalty
            /\ EventsOf("init", k + 1) # <<>> => StartHistory(k + 1) = p.history

C20_Witness ==
    /\ pc = "done"
    /\ Len(plans) = 2
    /\ Len(plans[1].subjects) = 2
    /\ plans[1].subjects # Selected(1)
    /\ plans[1].subjects[1] # plans[1].subjects[2]
    /\ OfType(plans[1].new_entries, "Not Studied") # <<>>
    /\ StartHistory(2) = plans[1].history


ScoresAfter(i) == IF i < Len(trace) THEN trace[i + 1].scores ELSE local_scores

(* C22: after each selection the selected subject's local score is raised   *)
(* by exactly 0.005 * (2.5 * session_time + break_time), every other        *)
(* subject's score becomes max(old - 0.005, 0), no subject is added or      *)
(* removed, and no other subject's score ends higher than it was before.    *)
(* (Scores in units of 1/10000.)                                            *)
C22_AdjustRaisesChosenLowersOthers ==
    \A i \in DOMAIN trace :
        trace[i].ev = "select" =>
            LET before == trace[i].scores
                after == ScoresAfter(i)
            IN  /\ DOMAIN after = DOMAIN before
                /\ \A j \in DOMAIN before :
                      /\ after[j].subject = before[j].subject
                      /\ IF before[j].subject = trace[i].subject
                         THEN after[j].score - before[j].score
                                  = 125 * Get(parameters["session_time"])
                                        + 50 * Get(parameters["break_time"])
                         ELSE /\ after[j].score = IF before[j].score - 50 > 0
                                                  THEN before[j].score - 50 ELSE 0
                              /\ after[j].score <= before[j].score


----------------------------------------------------------------------------
(* The same rows with the same multiplicities, in any order *)
SameRows(a, b) ==
    \A e \in Range(a) \cup Range(b) :
        Cardinality({i \in DOMAIN a : a[i] = e}) = Cardinality({i \in DOMAIN b : b[i] = e})

(* C23: generate_session_plan only reads and appends. No step changes the   *)
(* predicted grades, and every step leaves the rows already in the store in *)
(* place and in order (the store before the step is a prefix of the store   *)
(* after it). When the call returns, the store holds the rows it had before *)
(* the call followed by exactly the new_entries of the returned plans, shot *)
(* by shot; and when the history was loaded from the store, the store holds *)
(* the same rows, with the same multiplicities, as the last plan's history. *)
C23_OnlyReadsAndAppends ==
    [][/\ predicted' = predicted
       /\ Len(store') >= Len(store)
       /\ SubSeq(store', 1, Len(store)) = store
       /\ pc' = "done" =>
             /\ Len(plans') = shot_count'
             /\ store' = store0' \o Concat([k \in DOMAIN plans' |-> plans'[k].new_entries])
             /\ IsNone(args'.history) => SameRows(store', plans'[Len(plans')].history)]_vars

(* A two-shot call that loaded one stored row returns with that row still   *)
(* first in the store and the entries of both plans after it                *)
C23_Witness ==
    /\ pc = "done"
    /\ IsNone(args.history)
    /\ Len(store0) = 1
    /\ Len(plans) = 2
    /\ plans[1].new_entries # <<>>
    /\ plans[2].new_entries # <<>>
    /\ store[1] = store0[1]
    /\ Len(store) = 1 + Len(plans[1].new_entries) + Len(plans[2].new_entries)


----------------------------------------------------------------------------
(* Store harness: calls of io.append_history_entries and                    *)
(* io.delete_history_by_types, one after another, on a small database.      *)
(* store0 holds the rows the store had before the latest call.              *)

(* The most rows the store may hold before a call is made *)
MaxRows == 2

(* Entries a batch is made of: complete ones, one whose subject may be       *)
(* unknown to the store ("Chem"), one whose type may be unknown ("Not        *)
(* Studied"), and incomplete ones (an empty or all-blank subject, an empty   *)
(* type), one of which names the type that may be unknown.                   *)
BatchEntries ==
    {Entry("Art", "Revision", 42, Today),
     Entry("Bio", "Not Studied", 0 - 10, Today),
     Entry("Chem", "Quiz", 55, Today),
     Entry("", "Quiz", 90, Today),
     Entry(" ", "Not Studied", 0 - 10, Today),
     Entry("Art", "", 70, Today)}

BatchChoices == SeqsUpTo(BatchEntries, MaxHist + 1)

DeleteChoices == {EXCLUDED_TYPES, {"Quiz"}, {"Revision", " "}}

IoInit ==
    /\ pc = "io"
    /\ predicted = <<>>
    /\ userExists \in BOOLEAN
    /\ storeTypes \in {AllTypes, AllTypes \ {"Not Studied"}}
    /\ storeSubjects \in {GradedSubjects, Subjects}
    /\ store \in {<<>>, <<Entry("Art", "Quiz", 40, Today - 1)>>}
    /\ store0 = store
    /\ args = <<>>
    /\ defaults = <<>>
    /\ Idle
    /\ fnCall = NoCall
    /\ fnResult = NoResult

(* io.append_history_entries(entries) *)
CallAppendHistoryEntries ==
    /\ pc = "io"
    /\ Len(store) <= MaxRows
    /\ \E batch \in BatchChoices :
          LET written == append_history_entries(batch, store, userExists, storeTypes,
                                                storeSubjects)
          IN  /\ store' = written.rows
              /\ fnCall' = [op |-> "append_history_entries", arg |-> batch]
              /\ fnResult' = [status |-> written.status, value |-> written.written]
    /\ store0' = store
    /\ UNCHANGED <<heap, pc, predicted, storeSubjects, storeTypes, userExists, inputVars, callVars,
                   shotVars, error, trace>>

(* io.delete_history_by_types(type_names) *)
CallDeleteHistoryByTypes ==
    /\ pc = "io"
    /\ store # <<>>
    /\ \E type_names \in DeleteChoices :
          LET removed == delete_history_by_types(type_names, store, userExists, storeTypes)
          IN  /\ store' = removed.rows
              /\ fnCall' = [op |-> "delete_history_by_types", arg |-> type_names]
              /\ fnResult' = [status |-> removed.status, value |-> removed.deleted]
    /\ store0' = store
    /\ UNCHANGED <<heap, pc, predicted, storeSubjects, storeTypes, userExists, inputVars, callVars,
                   shotVars, error, trace>>

IoNext == CallAppendHistoryEntries \/ CallDeleteHistoryByTypes

IoSpec == IoInit /\ [][IoNext]_vars

----------------------------------------------------------------------------
(* cli.main with --reset: generate_session_plan, then the history reset.    *)
(* The reset may be run again on the store it left.                         *)

(* cli._reset_history, lines 199-207 *)
ResetHistory ==
    /\ pc \in {"done", "reset"}
    /\ LET removed == filter_history(store, userExists, storeTypes)
       IN  /\ store' = removed.rows
           /\ pc' = IF removed.status # "ok" THEN "reset_failed"
                    ELSE IF pc = "done" THEN "reset" ELSE "reset_again"
           /\ trace' = Append(trace, Event(IF removed.status = "ok" THEN "reset"
                                           ELSE "reset_failed", shot, "", <<>>, store))
    /\ UNCHANGED <<heap, store0, storeSubjects, storeTypes, userExists, predicted, inputVars, fnVars,
                   callVars, shotVars, error>>

CliNext == Next \/ ResetHistory

CliSpec == Init /\ [][CliNext]_vars

----------------------------------------------------------------------------
(* Two invocations of generate_session_plan for the same user, in separate   *)
(* processes sharing the database. Nothing in the code orders them: each     *)
(* step below is one database call of one invocation (the read of the        *)
(* history, the append of a shot's entries) together with the computation    *)
(* that follows or precedes it in memory, and the steps of the two           *)
(* invocations interleave freely. In this specification pc, local_history,   *)
(* parameters, shot_count, run_date, plans, shot, plan and error hold one    *)
(* value per invocation.                                                     *)

Invocations == {1, 2}

(* The most shots, and the sessions per shot, of a racing invocation *)
MaxRaceShots == 2
MaxRaceCount == 1

RaceEvent(ev, p, k, batch) == [ev |-> ev, inv |-> p, shot |-> k, batch |-> batch]

(* _run_single_plan, lines 296-315: the selection loop, n selections from    *)
(* the given local scores: [status, subjects, scores]                        *)
RECURSIVE select_subjects(_, _, _, _)
select_subjects(scores, n, minutes, pause) ==
    IF n = 0 THEN [status |-> "ok", subjects |-> <<>>, scores |-> scores]
    ELSE LET chosen == choose_lowest_subject(normalise_scores(AsRationals(scores)))
         IN  IF chosen.status # "ok"
             THEN [status |-> chosen.status, subjects |-> <<>>, scores |-> scores]
             ELSE LET rest == select_subjects(
                                  adjust_local_scores(scores, chosen.value, minutes, pause),
                                  n - 1, minutes, pause)
                  IN  [rest EXCEPT !.subjects = <<chosen.value>> \o @]

(* _run_single_plan, lines 286-331, without the shuffle and the append: the  *)
(* selections, the entries to persist and the extended working history       *)
run_single_plan(history, params, session_date, grade_rows, types) ==
    LET grades == get_predicted_grades(grade_rows)
        minutes == Get(params["session_time"])
        pause == Get(params["break_time"])
        initial == initialise_local_scores(history, get_assessment_weights(types), grades.value)
        picked == select_subjects(initial, Max(Get(params["count"]), 0), minutes, pause)
        revision_entries ==
            [i \in DOMAIN picked.subjects |->
                build_revision_entry(picked.subjects[i], minutes, pause, session_date, grade_rows)]
        tracked == collect_subjects(history, grades.value) \cup Range(picked.subjects)
        not_studied_entries ==
            build_not_studied_entries(tracked, Range(picked.subjects), minutes, pause,
                                      session_date, grade_rows)
    IN  IF grades.status # "ok"
        THEN [status |-> grades.status, subjects |-> <<>>, new_entries |-> <<>>,
              history |-> history]
        ELSE IF picked.status # "ok"
        THEN [status |-> picked.status, subjects |-> <<>>, new_entries |-> <<>>,
              history |-> history]
        ELSE [status |-> "ok", subjects |-> picked.subjects,
              new_entries |-> PersistedEntries(revision_entries, not_studied_entries),
              history |-> ExtendHistory(history \o revision_entries, not_studied_entries)]

RacePredicted ==
    {<<[subject |-> "Art", score |-> 500]>>,
     <<[subject |-> "Art", score |-> 500], [subject |-> "Bio", score |-> 750]>>,
     <<[subject |-> "Bio", score |-> 500], [subject |-> "Art", score |-> 500]>>}

RaceInit ==
    /\ pc = [p \in Invocations |-> "start"]
    /\ predicted \in RacePredicted
    /\ userExists = TRUE
    /\ storeTypes \in {AllTypes, AllTypes \ {"Not Studied"}}
    /\ store \in HistoryChoices
    /\ store0 = store
    /\ {store[i].type : i \in DOMAIN store} \subseteq storeTypes
    /\ storeSubjects = GradedSubjects \cup {store[i].subject : i \in DOMAIN store}
    /\ args = [history |-> None,
               session_parameters |-> [key \in {"count", "session_time", "break_time", "shots"}
                                          |-> None],
               session_date |-> None,
               shots |-> None]
    /\ \E requested \in 1..MaxRaceShots :
          defaults = [count |-> Some(MaxRaceCount),
                      session_time |-> Some(SESSION_TIME_MINUTES),
                      break_time |-> Some(BREAK_TIME_MINUTES),
                      shots |-> Some(requested)]
    /\ local_history = [p \in Invocations |-> <<>>]
    /\ parameters = [p \in Invocations |-> <<>>]
    /\ shot_count = [p \in Invocations |-> 0]
    /\ run_date = [p \in Invocations |-> 0]
    /\ plans = [p \in Invocations |-> <<>>]
    /\ shot = [p \in Invocations |-> 0]
    /\ plan = [p \in Invocations |-> <<>>]
    /\ error = [p \in Invocations |-> ""]
    /\ local_scores = <<>>
    /\ tracked_subjects = {}
    /\ subjects = <<>>
    /\ session_entries = <<>>
    /\ trace = <<>>
    /\ heap = <<>>
    /\ fnCall = NoCall
    /\ fnResult = NoResult

(* generate_session_plan, lines 54-58, of invocation p: io.get_study_history *)
RacePrepare(p) ==
    /\ pc[p] = "start"
    /\ local_history' = [local_history EXCEPT ![p] = get_study_history(store)]
    /\ parameters' = [parameters EXCEPT
                         ![p] = resolve_session_parameters(args.session_parameters, defaults)]
    /\ shot_count' = [shot_count EXCEPT ![p] = ResolveShotCount(args.shots, parameters'[p])]
    /\ run_date' = [run_date EXCEPT ![p] = Today]
    /\ pc' = [pc EXCEPT ![p] = "shot"]
    /\ trace' = Append(trace, RaceEvent("read", p, 0, local_history'[p]))
    /\ UNCHANGED <<heap, storeVars, inputVars, fnVars, plans, shot, shotVars, error>>

(* _run_single_plan, lines 286-331, of invocation p: one shot computed in    *)
(* memory from its working history                                           *)
RaceRunShot(p) ==
    /\ pc[p] = "shot"
    /\ shot[p] < shot_count[p]
    /\ shot' = [shot EXCEPT ![p] = @ + 1]
    /\ LET outcome == run_single_plan(local_history[p], parameters[p], run_date[p], predicted,
                                      storeTypes)
       IN  IF outcome.status # "ok"
           THEN /\ pc' = [pc EXCEPT ![p] = "failed"]
                /\ error' = [error EXCEPT ![p] = outcome.status]
                /\ UNCHANGED <<local_history, plan>>
           ELSE /\ local_history' = [local_history EXCEPT ![p] = outcome.history]
                /\ \E shuffled \in shuffle_subjects(outcome.subjects) :
                      plan' = [plan EXCEPT ![p] = [subjects |-> shuffled,
                                                   new_entries |-> outcome.new_entries,
                                                   history |-> outcome.history]]
                /\ pc' = [pc EXCEPT ![p] = "persist"]
                /\ UNCHANGED error
    /\ UNCHANGED <<heap, storeVars, inputVars, fnVars, parameters, shot_count, run_date, plans,
                   local_scores, tracked_subjects, subjects, session_entries, trace>>

(* _persist_history, lines 261-270, of invocation p: io.append_history_entries *)
RacePersist(p) ==
    /\ pc[p] = "persist"
    /\ LET written == IF plan[p].new_entries = <<>>
                      THEN [status |-> "ok", rows |-> store, written |-> 0]
                      ELSE append_history_entries(plan[p].new_entries, store, userExists,
                                                  storeTypes, storeSubjects)
       IN  /\ store' = written.rows
           /\ IF written.status # "ok"
              THEN /\ pc' = [pc EXCEPT ![p] = "failed"]
                   /\ error' = [error EXCEPT ![p] = written.status]
                   /\ UNCHANGED <<plans, trace>>
              ELSE /\ plans' = [plans EXCEPT ![p] = Append(@, plan[p])]
                   /\ pc' = [pc EXCEPT ![p] = IF shot[p] < shot_count[p] THEN "shot" ELSE "done"]
                   /\ trace' = IF plan[p].new_entries = <<>> THEN trace
                               ELSE Append(trace, RaceEvent("append", p, shot[p],
                                                            plan[p].new_entries))
                   /\ UNCHANGED error
    /\ UNCHANGED <<heap, store0, storeSubjects, storeTypes, userExists, predicted, inputVars, fnVars,
                   local_history, parameters, shot_count, run_date, shot, local_scores, tracked_subjects, subjects, session_entries, plan>>

RaceNext == \E p \in Invocations : RacePrepare(p) \/ RaceRunShot(p) \/ RacePersist(p)

RaceSpec == RaceInit /\ [][RaceNext]_vars


(* The history invocation p read, and the batches it appended, in order *)
ReadOf(p) == SelectSeq(trace, LAMBDA e : e.ev = "read" /\ e.inv = p)[1].batch
AppendsOf(p) ==
    LET mine == SelectSeq(trace, LAMBDA e : e.ev = "append" /\ e.inv = p)
    IN  [i \in DOMAIN mine |-> mine[i].batch]

(* Both invocations read the history before either appended anything *)
BothReadFirst ==
    /\ Len(trace) >= 2
    /\ trace[1].ev = "read"
    /\ trace[2].ev = "read"

(* C26: concurrent invocations for the same user are not serialised and may *)
(* race on read-then-append. Whatever the interleaving, every append adds   *)
(* its rows after the rows already stored (the store is its initial rows    *)
(* followed by the appended batches in the order of the appends, so no      *)
(* entry of either invocation is lost or overwritten), each invocation      *)
(* appended exactly the new_entries of its plans, and each plan's history   *)
(* is the history that invocation read followed by its own entries only.    *)
(* When both invocations read before either appends, both read the initial  *)
(* store, neither plan history holds a row the other appended, the two      *)
(* compute the same entries shot by shot, and once both have returned the   *)
(* store holds both sets of entries.                                        *)
C26_RacingAppendsBothKept ==
    /\ store = store0 \o Concat(Appended)
    /\ \A p \in Invocations :
          /\ AppendsOf(p) = [k \in DOMAIN plans[p] |-> plans[p][k].new_entries]
          /\ \A k \in DOMAIN plans[p] :
                plans[p][k].history =
                    ReadOf(p) \o Concat([j \in 1..k |-> plans[p][j].new_entries])
          /\ pc[p] = "done" => Len(plans[p]) = shot_count[p]
    /\ BothReadFirst =>
          /\ \A p \in Invocations : ReadOf(p) = get_study_history(store0)
          /\ \A k \in DOMAIN plans[1] \cap DOMAIN plans[2] :
                plans[1][k].new_entries = plans[2][k].new_entries
          /\ (\A p \in Invocations : pc[p] = "done") =>
                /\ Len(store) = Len(store0) + 2 * Len(Concat(AppendsOf(1)))
                /\ \A e \in Range(Concat(AppendsOf(1))) :
                      Cardinality({i \in DOMAIN store : store[i] = e}) >=
                          2 * Cardinality({i \in DOMAIN Concat(AppendsOf(1)) :
                                              Concat(AppendsOf(1))[i] = e})

(* Both invocations read the one stored row before either appended; their   *)
(* appends of two shots each alternated, all four succeeded, and the store  *)
(* holds the row and both invocations' entries                              *)
C26_Witness ==
    /\ \A p \in Invocations : pc[p] = "done" /\ Len(plans[p]) = 2
    /\ BothReadFirst
    /\ ReadOf(1) = ReadOf(2)
    /\ Len(store0) = 1
    /\ [i \in DOMAIN AppendEvents |-> AppendEvents[i].inv] = <<1, 2, 1, 2>>
    /\ \A p \in Invocations : \A k \in 1..2 :
          /\ OfType(plans[p][k].new_entries, "Revision") # <<>>
          /\ Len(plans[p][k].history) < Len(store)
    /\ Len(store) = 1 + 2 * Len(Concat(AppendsOf(1)))
    /\ store[1] = store0[1]


----------------------------------------------------------------------------
(* The selection a shot would make from scores derived afresh from a working *)
(* history (_initialise_local_scores, normalise_scores, choose_lowest_subject) *)
SelectionFromHistory(history) ==
    choose_lowest_subject(
        normalise_scores(AsRationals(
            initialise_local_scores(history, get_assessment_weights(storeTypes), predicted))))

(* The Revision entries of the first n selections of shot k *)
EntriesOfSelections(k, n) == Concat([j \in 1..n |-> EventsOf("select", k)[j].batch])

(* C27 as stated: within a shot the Revision entry of selection j is in the *)
(* working history before selection j+1 is made, and selection j+1 is the   *)
(* one the working history including that entry gives.                      *)
C27_NextSelectionSeesEntry ==
    /\ pc = "select" => local_history = StartHistory(shot) \o session_entries
    /\ \A k \in 1..shot :
          \A j \in DOMAIN EventsOf("select", k) :
              j > 1 =>
                  EventsOf("select", k)[j].subject =
                      SelectionFromHistory(StartHistory(k) \o EntriesOfSelections(k, j - 1)).value

(* C27 amended: within a shot the Revision entry of selection j is appended *)
(* to the working history before selection j+1 is made (whenever a          *)
(* selection is about to be made the working history is the shot's starting *)
(* history followed by the Revision entries of the selections made, in      *)
(* order), but selection j+1 does not read it: it is the first minimum of   *)
(* the normalised local scores, and those are the scores selection j used   *)
(* with the selected subject raised by 0.005 * (2.5 * session_time +        *)
(* break_time) and every other subject lowered by 0.005 and floored at 0.   *)
C27_NextSelectionUsesAdjustedScores ==
    /\ pc = "select" =>
          /\ local_history = StartHistory(shot) \o session_entries
          /\ Len(session_entries) = Len(subjects)
          /\ \A j \in DOMAIN subjects :
                /\ session_entries[j].subject = subjects[j]
                /\ session_entries[j].type = "Revision"
    /\ \A k \in 1..shot :
          \A j \in DOMAIN EventsOf("select", k) :
              j > 1 =>
                  LET before == EventsOf("select", k)[j - 1]
                      this == EventsOf("select", k)[j]
                  IN  /\ Len(this.scores) = Len(before.scores)
                      /\ \A i \in DOMAIN before.scores :
                            /\ this.scores[i].subject = before.scores[i].subject
                            /\ this.scores[i].score =
                                  IF before.scores[i].subject = before.subject
                                  THEN before.scores[i].score
                                           + 125 * session_time + 50 * break_time
                                  ELSE Max(before.scores[i].score - 50, 0)
                      /\ this.subject =
                            choose_lowest_subject(normalise_scores(AsRationals(this.scores))).value

(* The second shot of a run on an empty history with equal grades: its      *)
(* second selection is Bio, although its working history, with the first    *)
(* selection's Revision entry for Art in it, would give Art again           *)
C27_Witness ==
    /\ pc = "select"
    /\ shot = 2
    /\ StartHistory(1) = <<>>
    /\ session_time = SESSION_TIME_MINUTES
    /\ subjects = <<"Art", "Bio">>
    /\ local_history[Len(local_history) - 1] = session_entries[1]
    /\ session_entries[1].subject = "Art"
    /\ SelectionFromHistory(StartHistory(shot) \o <<session_entries[1]>>).value = "Art"


----------------------------------------------------------------------------
(* The history the call started from followed by the entries of the plans   *)
(* of the shots before shot k                                               *)
AccumulatedHistory(k) ==
    InputHistory \o Concat([j \in 1..(k - 1) |-> PlansSoFar[j].new_entries])

(* C28: each shot starts from scores re-derived from the accumulated        *)
(* working history. The initial local scores of every shot are the          *)
(* aggregated scores of the weighted history, divided by 100, where the     *)
(* history is the one the call started from followed by every synthetic     *)
(* entry (Revision and Not Studied) of the shots before it; they are a      *)
(* function of that history alone, so the adjustments made to the local     *)
(* scores during the previous shot's selection loop do not appear in them.  *)
C28_ShotScoresRederivedFromHistory ==
    \A k \in 1..shot :
        EventsOf("init", k) # <<>> =>
            LET derived == aggregate_scores(
                               apply_weighting(AccumulatedHistory(k),
                                               get_assessment_weights(storeTypes), predicted),
                               predicted)
                initial == EventsOf("init", k)[1].scores
            IN  /\ StartHistory(k) = AccumulatedHistory(k)
                /\ Len(initial) = Len(derived)
                /\ \A i \in DOMAIN derived :
                      /\ initial[i].subject = derived[i].subject
                      /\ initial[i].score * 100 <= derived[i].score
                      /\ derived[i].score < (initial[i].score + 1) * 100

(* The second shot of a run starts from a history holding Revision and Not  *)
(* Studied entries of the first, with initial scores that differ from the   *)
(* local scores the first shot's selection loop ended with                  *)
C28_Witness ==
    /\ shot = 2
    /\ EventsOf("init", 2) # <<>>
    /\ EventsOf("penalty", 1) # <<>>
    /\ EventsOf("select", 1) # <<>>
    /\ OfType(StartHistory(2), "Revision") # <<>>
    /\ OfType(StartHistory(2), "Not Studied") # <<>>
    /\ EventsOf("init", 2)[1].scores # EventsOf("penalty", 1)[1].scores
    /\ EventsOf("init", 2)[1].scores # EventsOf("init", 1)[1].scores


----------------------------------------------------------------------------
(* generate_session_plan with its list objects told apart: heap maps the    *)
(* identity of a list to its entries, and in this specification             *)
(* args.history, local_history and the new_entries and history fields of a  *)
(* plan hold identities. A list that is appended to in place changes for    *)
(* every holder of its identity; a copy has an identity of its own. No      *)
(* statement of the package assigns into an entry dict, so entries are      *)
(* values.                                                                  *)

ListRef(name, k) == <<name, k>>

(* Mutant: the list itself is handed on instead of a copy *)
copy_entries_aliased(objects, ref, fresh) == [ref |-> ref, heap |-> objects]

(* [dict(entry) for entry in <list>]: a new list holding copies of the      *)
(* entries (_prepare_history line 79, _run_single_plan lines 329-330)       *)
copy_entries(objects, ref, fresh) == [ref |-> fresh, heap |-> (fresh :> objects[ref]) @@ objects]

HeapInit ==
    /\ pc = "start"
    /\ predicted \in RacePredicted
    /\ userExists = TRUE
    /\ storeTypes = AllTypes
    /\ \E hist0 \in HistoryChoices, fromStore \in BOOLEAN :
          /\ store = IF fromStore THEN hist0 ELSE <<>>
          /\ store0 = store
          /\ storeSubjects = GradedSubjects \cup {hist0[i].subject : i \in DOMAIN hist0}
          /\ args = [history |-> IF fromStore THEN None ELSE Some(ListRef("input", 0)),
                     session_parameters |-> [key \in {"count", "session_time", "break_time",
                                                      "shots"} |-> None],
                     session_date |-> None,
                     shots |-> None]
          /\ heap = IF fromStore THEN <<>> ELSE (ListRef("input", 0) :> hist0)
    /\ \E requested \in 1..MaxShots :
          defaults = [count |-> Some(MaxCount),
                      session_time |-> Some(SESSION_TIME_MINUTES),
                      break_time |-> Some(BREAK_TIME_MINUTES),
                      shots |-> Some(requested)]
    /\ local_history = <<>>
    /\ parameters = <<>>
    /\ shot_count = 0
    /\ run_date = 0
    /\ plans = <<>>
    /\ shot = 0
    /\ local_scores = <<>>
    /\ tracked_subjects = {}
    /\ subjects = <<>>
    /\ session_entries = <<>>
    /\ plan = <<>>
    /\ error = ""
    /\ trace = <<>>
    /\ fnCall = NoCall
    /\ fnResult = NoResult

(* generate_session_plan, lines 54-58: _prepare_history copies the supplied *)
(* list, or the list io.get_study_history returns                           *)
HeapPrepare ==
    /\ pc = "start"
    /\ LET source == IF IsNone(args.history)
                     THEN [ref |-> ListRef("source", 0),
                           heap |-> (ListRef("source", 0) :> get_study_history(store)) @@ heap]
                     ELSE [ref |-> Get(args.history), heap |-> heap]
           copied == copy_entries(source.heap, source.ref, ListRef("local", 0))
       IN  /\ local_history' = copied.ref
           /\ heap' = copied.heap
           /\ trace' = Append(trace, Event("prepare", 0, "", <<>>, copied.heap[copied.ref]))
    /\ parameters' = resolve_session_parameters(args.session_parameters, defaults)
    /\ shot_count' = ResolveShotCount(args.shots, parameters')
    /\ run_date' = Today
    /\ pc' = "shot"
    /\ UNCHANGED <<storeVars, inputVars, fnVars, plans, shot, shotVars, error>>

(* _run_single_plan, lines 286-331: local_history is appended to in place,  *)
(* persisted_entries is a new list, and the plan is given copies of both    *)
HeapRunShot ==
    /\ pc = "shot"
    /\ shot < shot_count
    /\ shot' = shot + 1
    /\ LET outcome == run_single_plan(heap[local_history], parameters, run_date, predicted,
                                      storeTypes)
           grown == [heap EXCEPT ![local_history] = outcome.history]
           persisted == (ListRef("persisted", shot') :> outcome.new_entries) @@ grown
           entries_copy == copy_entries(persisted, ListRef("persisted", shot'),
                                        ListRef("new_entries", shot'))
           history_copy == copy_entries(entries_copy.heap, local_history,
                                        ListRef("history", shot'))
       IN  IF outcome.status # "ok"
           THEN /\ pc' = "failed"
                /\ error' = outcome.status
                /\ UNCHANGED <<heap, plan>>
           ELSE /\ heap' = history_copy.heap
                /\ \E shuffled \in shuffle_subjects(outcome.subjects) :
                      plan' = [subjects |-> shuffled,
                               new_entries |-> entries_copy.ref,
                               history |-> history_copy.ref]
                /\ pc' = "persist"
                /\ UNCHANGED error
    /\ UNCHANGED <<storeVars, inputVars, fnVars, local_history, parameters, shot_count, run_date,
                   plans, local_scores, tracked_subjects, subjects, session_entries, trace>>

(* _persist_history, lines 261-270, and generate_session_plan, lines 67-69  *)
HeapPersist ==
    /\ pc = "persist"
    /\ LET written == IF heap[plan.new_entries] = <<>>
                      THEN [status |-> "ok", rows |-> store, written |-> 0]
                      ELSE append_history_entries(heap[plan.new_entries], store, userExists,
                                                  storeTypes, storeSubjects)
       IN  /\ store' = written.rows
           /\ IF written.status # "ok"
              THEN /\ pc' = "failed"
                   /\ error' = written.status
                   /\ UNCHANGED plans
              ELSE /\ plans' = Append(plans, plan)
                   /\ pc' = IF shot < shot_count THEN "shot" ELSE "done"
                   /\ UNCHANGED error
    /\ UNCHANGED <<heap, store0, storeSubjects, storeTypes, userExists, predicted, inputVars,
                   fnVars, local_history, parameters, shot_count, run_date, shot, shotVars,
                   trace>>

HeapNext == HeapPrepare \/ HeapRunShot \/ HeapPersist

HeapSpec == HeapInit /\ [][HeapNext]_vars

(* C29: the working history is private to one generate_session_plan call.   *)
(* No step changes the list the caller supplied; no step changes the        *)
(* history or the new_entries of a plan already returned, which are lists   *)
(* of their own (not the working list, not the caller's, not another        *)
(* plan's); and the history of the plan of shot i is the input history      *)
(* followed by the new_entries of the plans of shots 1..i, in order, and a  *)
(* prefix of the history of the plan of shot i+1.                           *)
C29_WorkingHistoryPrivate ==
    [][/\ ~IsNone(args.history) /\ pc # "start" =>
             /\ heap'[Get(args.history)] = heap[Get(args.history)]
             /\ heap[Get(args.history)] = trace[1].batch
             /\ local_history # Get(args.history)
       /\ \A k \in DOMAIN plans :
             /\ plans'[k] = plans[k]
             /\ heap'[plans[k].history] = heap[plans[k].history]
             /\ heap'[plans[k].new_entries] = heap[plans[k].new_entries]
       /\ \A k \in DOMAIN plans' :
             /\ plans'[k].history \notin {local_history'} \cup {plans'[j].history : j \in 1..(k - 1)}
             /\ ~IsNone(args.history) => plans'[k].history # Get(args.history)
             /\ heap'[plans'[k].history] =
                   trace'[1].batch \o Concat([j \in 1..k |-> heap'[plans'[j].new_entries]])
             /\ k > 1 =>
                   LET earlier == heap'[plans'[k - 1].history]
                       later == heap'[plans'[k].history]
                   IN  /\ Len(earlier) <= Len(later)
                       /\ SubSeq(later, 1, Len(earlier)) = earlier]_vars

(* A two-shot call on a supplied one-entry history has returned: the        *)
(* supplied list still holds its one entry, the first plan's history is     *)
(* shorter than the second's, which the working list equals                 *)
C29_Witness ==
    /\ pc = "done"
    /\ ~IsNone(args.history)
    /\ Len(heap[Get(args.history)]) = 1
    /\ Len(plans) = 2
    /\ heap[plans[1].new_entries] # <<>>
    /\ heap[plans[2].new_entries] # <<>>
    /\ Len(heap[plans[1].history]) = 1 + Len(heap[plans[1].new_entries])
    /\ Len(heap[plans[1].history]) < Len(heap[plans[2].history])
    /\ heap[local_history] = heap[plans[2].history]
    /\ local_history # plans[2].history


----------------------------------------------------------------------------
(* The subjects of a history that have no predicted grade *)
HistoryOnlySubjects(history) == {history[i].subject : i \in DOMAIN history} \ Keys(predicted)

(* The aggregated scores _initialise_local_scores computes at event i *)
AggregatedAt(i) ==
    aggregate_scores(apply_weighting(trace[i].batch, get_assessment_weights(storeTypes),
                                     predicted),
                     predicted)

(* C30: predicted grades define the universe of schedulable subjects. At    *)
(* every step of every shot the keys of the local scores, of the            *)
(* aggregated scores and of the normalised scores are the subjects with a   *)
(* predicted grade; every selected subject has a predicted grade; and a     *)
(* subject found only in the history is never selected and is given one     *)
(* Not Studied entry by the penalty pass of every shot.                     *)
C30_PredictedGradesDefineUniverse ==
    /\ pc \in {"select", "persist"} =>
          /\ Keys(local_scores) = Keys(predicted)
          /\ Keys(normalise_scores(AsRationals(local_scores))) = Keys(predicted)
    /\ \A i \in DOMAIN trace :
          /\ trace[i].ev = "init" =>
                /\ Keys(AggregatedAt(i)) = Keys(predicted)
                /\ Keys(trace[i].scores) = Keys(predicted)
          /\ trace[i].ev = "select" =>
                /\ Keys(trace[i].scores) = Keys(predicted)
                /\ Keys(NormalisedAt(i)) = Keys(predicted)
                /\ trace[i].subject \in Keys(predicted)
          /\ trace[i].ev = "penalty" =>
                \A s \in HistoryOnlySubjects(StartHistory(trace[i].shot)) :
                   /\ \A j \in DOMAIN trace :
                         trace[j].ev = "select" /\ trace[j].shot = trace[i].shot =>
                            trace[j].subject # s
                   /\ Cardinality({n \in DOMAIN trace[i].batch :
                                      /\ trace[i].batch[n].subject = s
                                      /\ trace[i].batch[n].type = "Not Studied"}) = 1
    /\ \A k \in DOMAIN PlansSoFar :
          /\ Range(PlansSoFar[k].subjects) \subseteq Keys(predicted)
          /\ \A s \in HistoryOnlySubjects(PlansSoFar[k].history) :
                \E n \in DOMAIN PlansSoFar[k].new_entries :
                   /\ PlansSoFar[k].new_entries[n].subject = s
                   /\ PlansSoFar[k].new_entries[n].type = "Not Studied"

(* Two shots have run on a history that names Chem, a subject without a     *)
(* predicted grade, whose stored score lies below every graded subject's:   *)
(* both plans select graded subjects only and both penalise Chem            *)
C30_Witness ==
    /\ pc = "done"
    /\ Len(plans) = 2
    /\ Keys(predicted) = GradedSubjects
    /\ HistoryOnlySubjects(StartHistory(1)) = {"Chem"}
    /\ \A k \in 1..2 :
          /\ plans[k].subjects # <<>>
          /\ "Chem" \notin Range(plans[k].subjects)
          /\ \E n \in DOMAIN plans[k].new_entries :
                plans[k].new_entries[n] \in [subject : {"Chem"}, type : {"Not Studied"},
                                             score : Int, date : {run_date}]

====
